---- MODULE Spec2Model ----
(***************************************************************************)
(* Transfer pipeline of the ed25519-scalar wallet (libs/solana):           *)
(* signAndSendSolTransaction and signAndSendSPLTransferTransaction, with   *)
(* the RPC node and the external signer as nondeterministic collaborators. *)
(***************************************************************************)
EXTENDS Integers, Sequences, FiniteSets, Bags, TLC

(***************************************************************************)
(* JavaScript numbers.  `amount: number` is an IEEE-754 double; the        *)
(* products `amount * Math.pow(10, tokenDecimals)` and                     *)
(* `LAMPORTS_PER_SOL * amount` are double multiplications.  A magnitude is *)
(* kept as a sequence of 10-bit limbs, least significant limb first and    *)
(* without leading zero limbs, because a 53-bit significand does not fit a *)
(* machine integer.                                                        *)
(***************************************************************************)

\* Significand width of a double.
Prec == 53

\* Fraction limbs carried while converting a decimal literal to a double.
ParseLimbs == 9

RECURSIVE Pow2(_)
Pow2(j) == IF j = 0 THEN 1 ELSE 2 * Pow2(j - 1)

\* Radix and limb width of a magnitude.
Radix == Pow2(10)

RECURSIVE Pow10(_)
Pow10(d) == IF d = 0 THEN 1 ELSE 10 * Pow10(d - 1)

RECURSIVE ToLimbs(_)
ToLimbs(n) == IF n = 0 THEN <<>> ELSE <<n % Radix>> \o ToLimbs(n \div Radix)

RECURSIVE Norm(_)
Norm(b) == IF b = <<>> THEN <<>>
           ELSE IF b[Len(b)] = 0 THEN Norm(SubSeq(b, 1, Len(b) - 1))
           ELSE b

\* b * Radix^n.
ShiftLimbs(b, n) == IF b = <<>> THEN <<>> ELSE [i \in 1..n |-> 0] \o b

\* b * c + carry, for a multiplier c of at most 10^6.
RECURSIVE MulSmall(_, _, _)
MulSmall(b, c, carry) ==
    IF b = <<>> THEN ToLimbs(carry)
    ELSE LET t == Head(b) * c + carry
         IN  <<t % Radix>> \o MulSmall(Tail(b), c, t \div Radix)

\* b * 10^d.
RECURSIVE MulPow10(_, _)
MulPow10(b, d) == IF d = 0 THEN b ELSE MulPow10(MulSmall(b, 10, 0), d - 1)

\* Long division of b by a divisor of at most 10^6, most significant limb
\* first.
RECURSIVE DivAcc(_, _, _, _, _)
DivAcc(b, D, i, r, q) ==
    IF i = 0 THEN [q |-> Norm(q), r |-> r]
    ELSE LET t == Radix * r + b[i]
         IN  DivAcc(b, D, i - 1, t % D, <<t \div D>> \o q)

DivSmall(b, D) == DivAcc(b, D, Len(b), 0, <<>>)

\* b + 1.
RECURSIVE Incr(_)
Incr(b) == IF b = <<>> THEN <<1>>
           ELSE IF Head(b) + 1 < Radix THEN <<Head(b) + 1>> \o Tail(b)
           ELSE <<0>> \o Incr(Tail(b))

\* Number of significant bits of a limb and of a magnitude.
RECURSIVE LimbLen(_)
LimbLen(x) == IF x = 0 THEN 0 ELSE 1 + LimbLen(x \div 2)

LimbBits == LimbLen(Radix) - 1

BitLen(b) == IF b = <<>> THEN 0
             ELSE LimbBits * (Len(b) - 1) + LimbLen(b[Len(b)])

\* Bit i of b, bit 0 being the least significant.
Bit(b, i) == IF i \div LimbBits + 1 > Len(b) THEN 0
             ELSE (b[i \div LimbBits + 1] \div Pow2(i % LimbBits)) % 2

LimbAt(b, j) == IF j >= 1 /\ j <= Len(b) THEN b[j] ELSE 0

\* floor(b / 2^s).
ShiftRight(b, s) ==
    LET q == s \div LimbBits
        r == s % LimbBits
    IN  Norm([j \in 1..Len(b) |->
                (LimbAt(b, j + q) \div Pow2(r))
                + (LimbAt(b, j + q + 1) % Pow2(r)) * Pow2(LimbBits - r)])

\* Some bit below bit s of b is set.
LowBits(b, s) == \E i \in 0..(s - 1) : Bit(b, i) = 1

\* A number is NaN or m * 2^e with m of at most Prec bits.
NaN == [nan |-> TRUE, m |-> <<>>, e |-> 0]

\* Round the exact magnitude b * 2^e (plus a positive remainder below the
\* last bit when sticky) to Prec bits, ties to even.
RoundToDouble(b, e, sticky) ==
    IF BitLen(b) <= Prec THEN [nan |-> FALSE, m |-> b, e |-> e]
    ELSE LET s    == BitLen(b) - Prec
             kept == ShiftRight(b, s)
             rest == sticky \/ LowBits(b, s - 1)
             up   == Bit(b, s - 1) = 1 /\ (rest \/ Bit(kept, 0) = 1)
             r    == IF up THEN Incr(kept) ELSE kept
         IN  IF BitLen(r) > Prec
             THEN [nan |-> FALSE, m |-> ShiftRight(r, 1), e |-> e + s + 1]
             ELSE [nan |-> FALSE, m |-> r, e |-> e + s]

\* The double nearest to the decimal literal n / 10^k, k <= 6 (parseFloat).
NumberFromDecimal(n, k) ==
    LET d == DivSmall(ShiftLimbs(ToLimbs(n), ParseLimbs), Pow10(k))
    IN  RoundToDouble(d.q, 0 - LimbBits * ParseLimbs, d.r # 0)

\* The value of the parameter `amount: number` written as the decimal dec.
Number(dec) == NumberFromDecimal(dec.n, dec.k)

\* `undefined`, where the code reads a field that is absent.
Undefined == 0 - 1

\* x * Math.pow(10, decimals); Math.pow(10, undefined) is NaN and so is the
\* product.  10^decimals is itself a double for every decimals <= 22.
NumberTimesPow10(x, decimals) ==
    IF x.nan \/ decimals = Undefined THEN NaN
    ELSE RoundToDouble(MulPow10(x.m, decimals), x.e, FALSE)

\* Number.isInteger.
IsInteger(x) ==
    /\ ~x.nan
    /\ (x.e >= 0 \/ ~LowBits(x.m, 0 - x.e))

\* The integer part of a number, as a magnitude.
RECURSIVE Double(_, _)
Double(b, n) == IF n = 0 THEN b ELSE Double(MulSmall(b, 2, 0), n - 1)

IntegerPart(x) ==
    IF x.e >= 0 THEN Double(x.m, x.e) ELSE ShiftRight(x.m, 0 - x.e)

\* round(n * 10^d / 10^k) computed exactly, halves upwards, as a magnitude.
ExactScaled(n, k, d) ==
    IF d >= k THEN MulPow10(ToLimbs(n), d - k)
    ELSE DivSmall(ToLimbs(2 * n + Pow10(k - d)), 2 * Pow10(k - d)).q


(***************************************************************************)
(* Inputs and collaborators.                                               *)
(***************************************************************************)

\* Number of transfer flows started in one behaviour.
MaxFlows == 2

\* Base-58 scalar keys and the address each derives (getPublicKeyAsync).
Keys == {"k1", "k2"}
PubOf == [k \in Keys |-> IF k = "k1" THEN "A" ELSE "B"]

\* Wallet addresses; "?" is a string that is not a base-58 public key.
Owners == {"A", "B"}
BadAddress == "?"
Mints == {"M"}

\* Assets a wallet may hold.
Tokens == {"M", "N"}

\* Amounts, each the number a decimal literal n / 10^k denotes.
Amounts == {[n |-> 15, k |-> 1], [n |-> 1, k |-> 6], [n |-> 41, k |-> 1],
            [n |-> 25, k |-> 1], [n |-> 1, k |-> 2]}

\* Decimals an asset's mint account may report.
MintDecimals == {6, 9}

\* What getAccountInfo can resolve to.
AccountInfos == {"null", "account"}

Blockhashes == {"h1", "h2"}
TxIds == {"t1"}

LAMPORTS_PER_SOL_EXP == 9

MAINNET_URL == "https://api.mainnet-beta.solana.com"
DEVNET_URL == "https://api.devnet.solana.com"

getNetworkUrl(useMainnet) == IF useMainnet THEN MAINNET_URL ELSE DEVNET_URL

TOKEN_PROGRAM_ID == "TOKEN_PROGRAM_ID"
TOKEN_2022_PROGRAM_ID == "TOKEN_2022_PROGRAM_ID"

\* new PublicKey(address) throws on a string that is not a public key.
IsPublicKey(a) == a # BadAddress

\* getAssociatedTokenAddress with the program fixed to Token-2022.
getAssociatedTokenAddress_fixed2022(mint, owner, programId) ==
    [owner |-> owner, mint |-> mint, programId |-> "TOKEN_2022_PROGRAM_ID"]

\* getAssociatedTokenAddress: the address derived from (mint, owner, program).
getAssociatedTokenAddress(mint, owner, programId) ==
    [owner |-> owner, mint |-> mint, programId |-> programId]

NoAddress == [owner |-> "", mint |-> "", programId |-> ""]

\* Buffer.from(bytes).toString("hex") and the decoding the signer applies.
ToHex(bytes) == [hex |-> bytes]
FromHex(h) == h.hex

\* What getParsedAccountInfo can resolve to for the asset address:
\* no account (value null), an account the node does not parse (data is a
\* Buffer), or a parsed account of some program; only a mint of one of the
\* two token programs carries info.decimals.
NoAccount == [value |-> "unread", program |-> "", decimals |-> Undefined]

AccountResponses ==
    {[value |-> "null", program |-> "", decimals |-> Undefined],
     [value |-> "raw", program |-> "", decimals |-> Undefined],
     [value |-> "parsed", program |-> "stake", decimals |-> Undefined]}
    \cup {[value |-> "parsed", program |-> p, decimals |-> d] :
             p \in {"spl-token", "spl-token-2022"}, d \in MintDecimals}

(***************************************************************************)
(* Instructions, messages, transactions.                                   *)
(***************************************************************************)

\* The transfer runs from the recipient to the sender.
SystemProgramTransfer_reversed(from, to, lamports) ==
    [type |-> "transfer", fromPubkey |-> to, toPubkey |-> from,
     lamports |-> lamports]

\* SystemProgram.transfer (lines 563-567).
SystemProgramTransfer(from, to, lamports) ==
    [type |-> "transfer", fromPubkey |-> from, toPubkey |-> to,
     lamports |-> lamports]

\* The payer and the owner of the new account change places.
createAssociatedTokenAccountInstruction_swapped(payer, ata, owner, mint, programId) ==
    [type |-> "createAssociatedTokenAccount", payer |-> owner,
     associatedToken |-> ata, owner |-> payer, mint |-> mint,
     programId |-> programId]

\* createAssociatedTokenAccountInstruction (lines 730-736).
createAssociatedTokenAccountInstruction(payer, ata, owner, mint, programId) ==
    [type |-> "createAssociatedTokenAccount", payer |-> payer,
     associatedToken |-> ata, owner |-> owner, mint |-> mint,
     programId |-> programId]

\* The source and the destination account change places.
createTransferCheckedInstruction_swapped(source, mint, dest, owner, amount, decimals, programId) ==
    [type |-> "transferChecked", source |-> dest, mint |-> mint,
     destination |-> source, owner |-> owner, amount |-> amount,
     decimals |-> decimals, programId |-> programId]

\* createTransferCheckedInstruction (lines 748-757), multiSigners empty.
createTransferCheckedInstruction(source, mint, dest, owner, amount, decimals, programId) ==
    [type |-> "transferChecked", source |-> source, mint |-> mint,
     destination |-> dest, owner |-> owner, amount |-> amount,
     decimals |-> decimals, programId |-> programId]

NoTx == [encoding |-> "none", feePayer |-> "", recentBlockhash |-> "",
         instructions |-> <<>>, signatures |-> [s \in {} |-> <<>>]]

\* The signable message: everything of the transaction but its signatures.
Message(t) == [encoding |-> t.encoding, feePayer |-> t.feePayer,
               recentBlockhash |-> t.recentBlockhash,
               instructions |-> t.instructions]

\* The accounts an instruction requires a signature of: the source of a
\* system transfer, the payer of an account creation, the owner of a checked
\* transfer without multisigners.
SignersOf(ix) ==
    IF ix.type = "transfer" THEN {ix.fromPubkey}
    ELSE IF ix.type = "createAssociatedTokenAccount" THEN {ix.payer}
    ELSE {ix.owner}

\* The transaction is paid for by its recipient.
NewTx_recipientPays(enc, payer, blockhash, ixs) ==
    LET last == ixs[Len(ixs)]
        to   == IF last.type = "transfer" THEN last.toPubkey
                ELSE last.destination.owner
    IN  [encoding |-> enc, feePayer |-> to, recentBlockhash |-> blockhash,
         instructions |-> ixs,
         signatures |-> [s \in {to} \cup UNION {SignersOf(ixs[i]) :
                                              i \in 1..Len(ixs)} |-> <<>>]]

\* A transaction has one signature slot for its fee payer and for every
\* account an instruction requires a signature of; a slot is empty (<<>>) or
\* holds one signature.
NewTx(enc, payer, blockhash, ixs) ==
    [encoding |-> enc, feePayer |-> payer, recentBlockhash |-> blockhash,
     instructions |-> ixs,
     signatures |-> [s \in {payer} \cup UNION {SignersOf(ixs[i]) :
                                         i \in 1..Len(ixs)} |-> <<>>]]

\* The message is serialized before the blockhash is set.
serializeMessage_noBlockhash(t) ==
    [encoding |-> t.encoding, feePayer |-> t.feePayer,
     recentBlockhash |-> "", instructions |-> t.instructions]

\* tx.serializeMessage() (line 571) / transaction.message.serialize() (778).
serializeMessage(t) == Message(t)

addSignature(t, pubkey, sig) ==
    [t EXCEPT !.signatures = [s \in DOMAIN t.signatures |->
                                 IF s = pubkey THEN <<sig>>
                                 ELSE t.signatures[s]]]

\* A signature produced by the external signer over msg with key; genuine
\* is FALSE for bytes that are no Ed25519 signature of msg under key.
Signature(msg, key, genuine) == [msg |-> msg, key |-> key, genuine |-> genuine]

\* Ed25519 verification of sig over msg under the public key pubkey.
Ed25519Verify(sig, msg, pubkey) ==
    /\ sig.genuine
    /\ sig.msg = msg
    /\ PubOf[sig.key] = pubkey

\* verifySignatures with the check left out.
verifySignatures_skipped(t) == TRUE

\* Transaction.verifySignatures: every signer slot holds a signature of the
\* message under that signer's public key.
verifySignatures(t) ==
    \A s \in DOMAIN t.signatures :
        /\ t.signatures[s] # <<>>
        /\ Ed25519Verify(t.signatures[s][1], Message(t), s)


(***************************************************************************)
(* State of one call of signAndSendSolTransaction or                       *)
(* signAndSendSPLTransferTransaction.  pc names the await the call is      *)
(* suspended at; each action runs the code from one await to the next.     *)
(***************************************************************************)
VARIABLES
    pc,                   \* "idle", the pending await, "returned", "thrown"
    flow,                 \* "none", "sol" or "spl"
    args,                 \* the parameters of the call; amount as a decimal
    tokenInfo,            \* line 662: the asset's account as the node gave it
    tokenProgramId,       \* line 685
    tokenDecimals,        \* line 689
    senderTokenAddress,   \* line 693
    senderAccountInfo,    \* line 700: "unread", "null" or "account"
    receiverTokenAddress, \* line 714
    receiverAccountInfo,  \* line 721: "unread", "null" or "account"
    blockhash,            \* lines 558 and 744: the blockhash as fetched
    instructions,         \* line 659
    ixAmount,             \* the number passed as amount / lamports, if any
    tx,                   \* `tx` (line 559) / `transaction` (line 773)
    serializedHex,        \* what was handed to signAsync, if anything
    verified,             \* verifySignatures() was called and returned true
    calls,                \* external calls issued by this flow, in order
    submitted,            \* raw transactions given to sendRawTransaction
    logs,                 \* console output of this flow
    result,               \* what the call returned or threw
    nflows                \* flows started so far

vars == <<pc, flow, args, tokenInfo, tokenProgramId, tokenDecimals,
          senderTokenAddress, senderAccountInfo, receiverTokenAddress,
          receiverAccountInfo, blockhash, instructions, ixAmount, tx,
          serializedHex, verified, calls, submitted, logs, result, nflows>>

\* State outside the call that is running: the other call in flight, and
\* the App component (App.tsx).
VARIABLES
    parked,               \* the locals of a second call, suspended at an await
    walletAddress,        \* App.tsx 42, "" for null
    walletBalance,        \* App.tsx 43, <<>> for null
    isMainnet,            \* App.tsx 51
    splTokenBalances,     \* App.tsx 56
    tokenMetadata,        \* App.tsx 60
    tasks,                \* the runs of the async handlers and of the effect
    alerts,               \* alert() calls
    events,               \* clicks handled so far
    scalarKey,            \* App.tsx 39, the key in the input field
    txhash,               \* App.tsx 46, <<>> for null
    splTxhash,            \* App.tsx 49, <<>> for null
    splError              \* App.tsx 50, <<>> for null

\* What the two transfer forms show of their last attempt.
shown == <<txhash, splTxhash, splError>>

app == <<walletAddress, walletBalance, isMainnet, splTokenBalances,
         tokenMetadata, tasks, alerts, events, scalarKey, shown>>

outer == <<parked, app>>

\* What the token flow has resolved about the asset and the two accounts.
resolved == <<tokenInfo, tokenProgramId, tokenDecimals, senderTokenAddress,
              senderAccountInfo, receiverTokenAddress, receiverAccountInfo>>

locals == <<resolved, blockhash, instructions, ixAmount, tx, serializedHex,
            verified>>

NoArgs == [scalarKey |-> "", from |-> "", to |-> "",
           amount |-> [n |-> 0, k |-> 0], tokenAddress |-> "",
           useMainnet |-> TRUE]

NoHex == <<>>
NoResult == [kind |-> "none", value |-> ""]

\* The locals of a call that has not started.
Idle ==
    [pc |-> "idle", flow |-> "none", args |-> NoArgs, tokenInfo |-> NoAccount,
     tokenProgramId |-> "", tokenDecimals |-> Undefined,
     senderTokenAddress |-> NoAddress, senderAccountInfo |-> "unread",
     receiverTokenAddress |-> NoAddress, receiverAccountInfo |-> "unread",
     blockhash |-> "", instructions |-> <<>>, ixAmount |-> <<>>, tx |-> NoTx,
     serializedHex |-> NoHex, verified |-> FALSE, calls |-> <<>>,
     submitted |-> <<>>, logs |-> <<>>, result |-> NoResult]
Returned(v) == [kind |-> "value", value |-> v]
Thrown(e) == [kind |-> "error", value |-> e]

\* A call that also carries the key.
Call_withKey(method, endpoint, carries) ==
    [method |-> method, endpoint |-> endpoint,
     carries |-> carries \cup {"privateKeyHex"}]

\* An external call: the collaborator it goes to and the values it carries,
\* named as in the source.
Call(method, endpoint, carries) ==
    [method |-> method, endpoint |-> endpoint, carries |-> carries]

RpcMethods == {"getParsedAccountInfo", "getAccountInfo", "getLatestBlockhash",
               "sendRawTransaction"}

\* No call of a transfer function has started.
NoCall ==
    /\ pc = "idle"
    /\ flow = "none"
    /\ args = NoArgs
    /\ tokenInfo = NoAccount
    /\ tokenProgramId = ""
    /\ tokenDecimals = Undefined
    /\ senderTokenAddress = NoAddress
    /\ senderAccountInfo = "unread"
    /\ receiverTokenAddress = NoAddress
    /\ receiverAccountInfo = "unread"
    /\ blockhash = ""
    /\ instructions = <<>>
    /\ ixAmount = <<>>
    /\ tx = NoTx
    /\ serializedHex = NoHex
    /\ verified = FALSE
    /\ calls = <<>>
    /\ submitted = <<>>
    /\ logs = <<>>
    /\ result = NoResult
    /\ nflows = 0
    /\ parked = Idle

\* The App component as it is mounted (App.tsx 39-62); the key field is
\* empty unless the build presets it.
Init ==
    /\ NoCall
    /\ walletAddress = ""
    /\ walletBalance = <<>>
    /\ isMainnet = TRUE
    /\ splTokenBalances = <<>>
    /\ tokenMetadata = <<>>
    /\ tasks = EmptyBag
    /\ alerts = 0
    /\ events = 0
    /\ scalarKey = ""
    /\ txhash = <<>>
    /\ splTxhash = <<>>
    /\ splError = <<>>

\* The caller invokes a transfer function: the previous call, if any, has
\* settled, and the new call starts from fresh locals.
Fresh ==
    /\ pc \in {"idle", "returned", "thrown"}
    /\ nflows < MaxFlows
    /\ nflows' = nflows + 1
    /\ UNCHANGED outer
    /\ tokenInfo' = NoAccount
    /\ tokenProgramId' = ""
    /\ tokenDecimals' = Undefined
    /\ senderTokenAddress' = NoAddress
    /\ senderAccountInfo' = "unread"
    /\ receiverTokenAddress' = NoAddress
    /\ receiverAccountInfo' = "unread"
    /\ blockhash' = ""
    /\ instructions' = <<>>
    /\ ixAmount' = <<>>
    /\ tx' = NoTx
    /\ serializedHex' = NoHex
    /\ verified' = FALSE
    /\ submitted' = <<>>
    /\ logs' = <<>>

\* Every failure is caught and the function returns null.
Throw_returnsNull(e) ==
    /\ pc' = "returned"
    /\ result' = Returned("null")

\* The flow ends by throwing e.
Throw(e) ==
    /\ pc' = "thrown"
    /\ result' = Thrown(e)

(***************************************************************************)
(* signAndSendSolTransaction                                               *)
(***************************************************************************)

\* Lines 546-558: up to the await of getLatestBlockhash.
SolStart(key, from, to, dec, useMainnet) ==
    /\ Fresh
    /\ flow' = "sol"
    /\ args' = [scalarKey |-> key, from |-> from, to |-> to, amount |-> dec,
                tokenAddress |-> "", useMainnet |-> useMainnet]
    /\ IF ~IsPublicKey(from) \/ ~IsPublicKey(to)
       THEN /\ Throw("InvalidPublicKey")
            /\ calls' = <<>>
       ELSE /\ pc' = "sol_blockhash"
            /\ result' = NoResult
            /\ calls' = <<Call("getLatestBlockhash", getNetworkUrl(useMainnet),
                               {"commitment"})>>

\* Lines 558-577: the blockhash arrives; build, serialize, ask for a
\* signature.  SystemProgram.transfer converts lamports with BigInt(), which
\* throws a RangeError on a number that is not an integer.
SolOnBlockhash(latest) ==
    /\ pc = "sol_blockhash"
    /\ blockhash' = latest
    /\ LET lamports == NumberTimesPow10(Number(args.amount),
                                       LAMPORTS_PER_SOL_EXP)
           t == NewTx("legacy", args.from, latest,
                      <<SystemProgramTransfer(args.from, args.to, lamports)>>)
       IN  /\ ixAmount' = <<lamports>>
           /\ IF ~IsInteger(lamports)
              THEN /\ Throw("RangeError")
                   /\ UNCHANGED <<tx, instructions, serializedHex, calls>>
              ELSE /\ tx' = t
                   /\ instructions' = t.instructions
                   /\ serializedHex' = <<ToHex(serializeMessage(t))>>
                   /\ calls' = Append(calls, Call("signAsync", "signer",
                                          {"serializedHex", "privateKeyHex"}))
                   /\ pc' = "sol_sign"
                   /\ UNCHANGED result
    /\ UNCHANGED <<flow, args, resolved, verified, submitted, logs, nflows, outer>>

\* Lines 577-590: the signature arrives; attach, log, verify, submit.
SolOnSignature(genuine) ==
    /\ pc = "sol_sign"
    /\ LET sig == Signature(FromHex(serializedHex[1]), args.scalarKey, genuine)
           t == addSignature(tx, args.from, sig)
       IN  /\ tx' = t
           /\ logs' = Append(logs, {"tx"})
           /\ IF ~verifySignatures(t)
              THEN /\ Throw("SignatureVerificationFailed")
                   /\ UNCHANGED <<verified, calls, submitted>>
              ELSE /\ verified' = TRUE
                   /\ submitted' = Append(submitted, t)
                   /\ calls' = Append(calls, Call("sendRawTransaction",
                                          getNetworkUrl(args.useMainnet),
                                          {"rawTransaction"}))
                   /\ pc' = "sol_send"
                   /\ UNCHANGED result
    /\ UNCHANGED <<flow, args, resolved, blockhash, instructions, ixAmount,
                   serializedHex, nflows, outer>>

\* Lines 590-592: the node accepted the transaction.
SolOnSent(hash) ==
    /\ pc = "sol_send"
    /\ pc' = "returned"
    /\ result' = Returned(hash)
    /\ UNCHANGED <<flow, args, locals, calls, submitted, logs, nflows, outer>>


(***************************************************************************)
(* signAndSendSPLTransferTransaction                                       *)
(***************************************************************************)

\* Lines 642-662: up to the await of getParsedAccountInfo.
SplStart(key, sender, recipient, dec, token, useMainnet) ==
    /\ Fresh
    /\ flow' = "spl"
    /\ args' = [scalarKey |-> key, from |-> sender, to |-> recipient,
                amount |-> dec, tokenAddress |-> token,
                useMainnet |-> useMainnet]
    /\ IF ~IsPublicKey(token) \/ ~IsPublicKey(sender) \/ ~IsPublicKey(recipient)
       THEN /\ Throw("InvalidPublicKey")
            /\ calls' = <<>>
       ELSE /\ pc' = "spl_info"
            /\ result' = NoResult
            /\ calls' = <<Call("getParsedAccountInfo",
                               getNetworkUrl(useMainnet), {"tokenPublicKey"})>>

\* The program the asset is taken to be governed by (lines 685-688).
ProgramIdOf(program) ==
    IF program = "spl-token-2022" THEN TOKEN_2022_PROGRAM_ID
    ELSE TOKEN_PROGRAM_ID

\* No check of the asset's account fires.
TokenInfoError_none(info) == ""

\* Lines 664-689, the throw the asset's account leads to, "" for none.  The
\* RPC response is always an object, so the check of line 664 never fires;
\* a null value leaves programData undefined (line 675); an unparsed account
\* has no `parsed` field, and reading parsed.info throws a TypeError (689).
TokenInfoError(info) ==
    IF info.value = "null" THEN "NoProgramData"
    ELSE IF info.value # "parsed" THEN "TypeError"
    ELSE ""

\* The connection is made anew from the network selected in the UI.
SplOnTokenInfo_selectedNetwork(info) ==
    /\ pc = "spl_info"
    /\ tokenInfo' = info
    /\ IF TokenInfoError(info) # ""
       THEN /\ Throw(TokenInfoError(info))
            /\ UNCHANGED <<tokenProgramId, tokenDecimals, senderTokenAddress,
                           calls>>
       ELSE /\ tokenProgramId' = ProgramIdOf(info.program)
            /\ tokenDecimals' = info.decimals
            /\ senderTokenAddress' =
                   getAssociatedTokenAddress(args.tokenAddress, args.from,
                                             tokenProgramId')
            /\ calls' = Append(calls, Call("getAccountInfo",
                                   getNetworkUrl(isMainnet),
                                   {"senderTokenAddress"}))
            /\ pc' = "spl_sender"
            /\ UNCHANGED result
    /\ UNCHANGED <<flow, args, senderAccountInfo, receiverTokenAddress,
                   receiverAccountInfo, blockhash, instructions, ixAmount, tx,
                   serializedHex, verified, submitted, logs, nflows, outer>>

\* Lines 662-700: the asset's account arrives.
SplOnTokenInfo(info) ==
    /\ pc = "spl_info"
    /\ tokenInfo' = info
    /\ IF TokenInfoError(info) # ""
       THEN /\ Throw(TokenInfoError(info))
            /\ UNCHANGED <<tokenProgramId, tokenDecimals, senderTokenAddress,
                           calls>>
       ELSE /\ tokenProgramId' = ProgramIdOf(info.program)
            /\ tokenDecimals' = info.decimals
            /\ senderTokenAddress' =
                   getAssociatedTokenAddress(args.tokenAddress, args.from,
                                             tokenProgramId')
            /\ calls' = Append(calls, Call("getAccountInfo",
                                   getNetworkUrl(args.useMainnet),
                                   {"senderTokenAddress"}))
            /\ pc' = "spl_sender"
            /\ UNCHANGED result
    /\ UNCHANGED <<flow, args, senderAccountInfo, receiverTokenAddress,
                   receiverAccountInfo, blockhash, instructions, ixAmount, tx,
                   serializedHex, verified, submitted, logs, nflows, outer>>

\* The account is taken to exist.
Missing_never(accountInfo) == FALSE

\* Lines 701 and 724, `!senderAccountInfo` / `!receiverAccountInfo`.
Missing(accountInfo) == accountInfo = "null"

\* Lines 700-721: the sender's associated account arrives.
SplOnSenderAccount(accountInfo) ==
    /\ pc = "spl_sender"
    /\ senderAccountInfo' = accountInfo
    /\ IF Missing(accountInfo)
       THEN /\ Throw("SenderHasNoAccount")
            /\ UNCHANGED <<receiverTokenAddress, calls>>
       ELSE /\ receiverTokenAddress' =
                   getAssociatedTokenAddress(args.tokenAddress, args.to,
                                             tokenProgramId)
            /\ calls' = Append(calls, Call("getAccountInfo",
                                   getNetworkUrl(args.useMainnet),
                                   {"receiverTokenAddress"}))
            /\ pc' = "spl_recv"
            /\ UNCHANGED result
    /\ UNCHANGED <<flow, args, tokenInfo, tokenProgramId, tokenDecimals,
                   senderTokenAddress, receiverAccountInfo, blockhash,
                   instructions, ixAmount, tx, serializedHex, verified,
                   submitted, logs, nflows, outer>>

\* The instruction goes to the front of the list.
push_front(list, ix) == <<ix>> \o list

\* instructions.push (lines 740 and 761).
push(list, ix) == Append(list, ix)

\* Lines 721-744: the recipient's associated account arrives.
SplOnReceiverAccount(accountInfo) ==
    /\ pc = "spl_recv"
    /\ receiverAccountInfo' = accountInfo
    /\ IF Missing(accountInfo)
       THEN /\ logs' = Append(logs, {"receiverTokenAddress", "recipient",
                                     "tokenPublicKey", "sender"})
            /\ instructions' = push(instructions,
                   createAssociatedTokenAccountInstruction(args.from,
                       receiverTokenAddress, args.to, args.tokenAddress,
                       tokenProgramId))
       ELSE UNCHANGED <<logs, instructions>>
    /\ calls' = Append(calls, Call("getLatestBlockhash",
                           getNetworkUrl(args.useMainnet), {"commitment"}))
    /\ pc' = "spl_blockhash"
    /\ UNCHANGED <<flow, args, tokenInfo, tokenProgramId, tokenDecimals,
                   senderTokenAddress, senderAccountInfo,
                   receiverTokenAddress, blockhash, ixAmount, tx,
                   serializedHex, verified, submitted, result, nflows, outer>>

\* Lines 744-784: the blockhash arrives; build the transfer instruction,
\* compile, serialize, ask for a signature.  createTransferCheckedInstruction
\* converts the amount with BigInt(), which throws a RangeError on a number
\* that is not an integer.
SplOnBlockhash(latest) ==
    /\ pc = "spl_blockhash"
    /\ blockhash' = latest
    /\ LET amount == NumberTimesPow10(Number(args.amount), tokenDecimals)
           ixs == push(instructions,
                      createTransferCheckedInstruction(senderTokenAddress,
                          args.tokenAddress, receiverTokenAddress, args.from,
                          amount, tokenDecimals, tokenProgramId))
           t == NewTx("v0", args.from, latest, ixs)
       IN  /\ ixAmount' = <<amount>>
           /\ IF ~IsInteger(amount)
              THEN /\ Throw("RangeError")
                   /\ UNCHANGED <<instructions, tx, serializedHex, calls, logs>>
              ELSE /\ instructions' = ixs
                   /\ tx' = t
                   /\ logs' = Append(logs, {"transaction"})
                   /\ serializedHex' = <<ToHex(serializeMessage(t))>>
                   /\ calls' = Append(calls, Call("signAsync", "signer",
                                          {"serializedHex", "privateKeyHex"}))
                   /\ pc' = "spl_sign"
                   /\ UNCHANGED result
    /\ UNCHANGED <<flow, args, resolved, verified, submitted, nflows, outer>>

\* Lines 784-793: the signature arrives; attach and submit.
SplOnSignature(genuine) ==
    /\ pc = "spl_sign"
    /\ LET sig == Signature(FromHex(serializedHex[1]), args.scalarKey, genuine)
           t == addSignature(tx, args.from, sig)
       IN  /\ tx' = t
           /\ submitted' = Append(submitted, t)
    /\ calls' = Append(calls, Call("sendRawTransaction",
                           getNetworkUrl(args.useMainnet), {"rawTransaction"}))
    /\ pc' = "spl_send"
    /\ UNCHANGED <<flow, args, resolved, blockhash, instructions, ixAmount,
                   serializedHex, verified, logs, result, nflows, outer>>

\* The accepted submission is taken for an expired one: the flow drops the
\* transfer instruction and waits for a blockhash again.
SplOnSent_again(hash) ==
    /\ pc = "spl_send"
    /\ pc' = "spl_blockhash"
    /\ calls' = SubSeq(calls, 1, 4)
    /\ instructions' = SubSeq(instructions, 1, Len(instructions) - 1)
    /\ submitted' = <<>>
    /\ logs' = SubSeq(logs, 1, Len(logs) - 1)
    /\ UNCHANGED <<flow, args, resolved, blockhash, ixAmount, tx,
                   serializedHex, verified, result, nflows, outer>>

\* Lines 793-794: the node accepted the transaction.
SplOnSent(hash) ==
    /\ pc = "spl_send"
    /\ pc' = "returned"
    /\ result' = Returned(hash)
    /\ UNCHANGED <<flow, args, locals, calls, submitted, logs, nflows, outer>>

(***************************************************************************)
(* A pending external call fails: the RPC node is unreachable or refuses,  *)
(* or the signer rejects.  Neither function catches anything, so the       *)
(* rejection ends the flow.                                                *)
(***************************************************************************)
Awaiting == {"sol_blockhash", "sol_sign", "sol_send", "spl_info",
             "spl_sender", "spl_recv", "spl_blockhash", "spl_sign",
             "spl_send", "info_account", "info_metadata", "fixed_sender",
             "fixed_recv", "fixed_blockhash", "fixed_sign"}

RejectionOf(method) ==
    IF method = "signAsync" THEN "SignerError"
    ELSE IF method = "sendRawTransaction" THEN "SendTransactionError"
    ELSE "RpcError"

\* A refused submission is sent once more.
OnRejected_resubmit ==
    /\ pc \in Awaiting
    /\ IF calls[Len(calls)].method = "sendRawTransaction" /\ Len(submitted) < 2
       THEN /\ calls' = Append(calls, calls[Len(calls)])
            /\ submitted' = Append(submitted, tx)
            /\ UNCHANGED <<pc, result>>
       ELSE /\ Throw(RejectionOf(calls[Len(calls)].method))
            /\ UNCHANGED <<calls, submitted>>
    /\ UNCHANGED <<flow, args, locals, logs, nflows, outer>>

OnRejected ==
    /\ pc \in Awaiting
    /\ Throw(RejectionOf(calls[Len(calls)].method))
    /\ UNCHANGED <<flow, args, locals, calls, submitted, logs, nflows, outer>>

Next ==
    \/ \E key \in Keys, from \in Owners, to \in Owners \cup {BadAddress},
          dec \in Amounts, useMainnet \in BOOLEAN :
            SolStart(key, from, to, dec, useMainnet)
    \/ \E latest \in Blockhashes : SolOnBlockhash(latest)
    \/ \E genuine \in BOOLEAN : SolOnSignature(genuine)
    \/ \E hash \in TxIds : SolOnSent(hash)
    \/ \E key \in Keys, sender \in Owners, recipient \in Owners \cup {BadAddress},
          dec \in Amounts, token \in Mints, useMainnet \in BOOLEAN :
            SplStart(key, sender, recipient, dec, token, useMainnet)
    \/ \E info \in AccountResponses : SplOnTokenInfo(info)
    \/ \E accountInfo \in AccountInfos : SplOnSenderAccount(accountInfo)
    \/ \E accountInfo \in AccountInfos : SplOnReceiverAccount(accountInfo)
    \/ \E latest \in Blockhashes : SplOnBlockhash(latest)
    \/ \E genuine \in BOOLEAN : SplOnSignature(genuine)
    \/ \E hash \in TxIds : SplOnSent(hash)
    \/ OnRejected

Spec == Init /\ [][Next]_vars

\* A settled call: the function returned or threw.
Terminal == {"returned", "thrown"}

\* The pending external call of the flow comes back: it resolves or rejects.
Respond ==
    \/ OnRejected
    \/ \E latest \in Blockhashes : SolOnBlockhash(latest)
    \/ \E genuine \in BOOLEAN : SolOnSignature(genuine)
    \/ \E hash \in TxIds : SolOnSent(hash)
    \/ \E info \in AccountResponses : SplOnTokenInfo(info)
    \/ \E accountInfo \in AccountInfos : SplOnSenderAccount(accountInfo)
    \/ \E accountInfo \in AccountInfos : SplOnReceiverAccount(accountInfo)
    \/ \E latest \in Blockhashes : SplOnBlockhash(latest)
    \/ \E genuine \in BOOLEAN : SplOnSignature(genuine)
    \/ \E hash \in TxIds : SplOnSent(hash)

\* The transfer flows under the assumption that every external call
\* eventually returns or fails; nothing obliges the user to start a flow.
LiveSpec == Init /\ [][Next]_vars /\ WF_vars(Respond)

(***************************************************************************)
(* getSPLTokenInfo (part_001 598-629)                                      *)
(***************************************************************************)

\* What getTokenMetadata can resolve to: null for a mint without the
\* metadata extension, or the metadata.
Metadatas == {<<>>, <<[name |-> "USD Coin", symbol |-> "USDC"]>>}

\* Lines 602-606: up to the await of getParsedAccountInfo.
InfoStart(tokenAddress, useMainnet) ==
    /\ Fresh
    /\ flow' = "info"
    /\ args' = [NoArgs EXCEPT !.tokenAddress = tokenAddress,
                              !.useMainnet = useMainnet]
    /\ IF ~IsPublicKey(tokenAddress)
       THEN /\ Throw("InvalidPublicKey")
            /\ calls' = <<>>
       ELSE /\ pc' = "info_account"
            /\ result' = NoResult
            /\ calls' = <<Call("getParsedAccountInfo",
                               getNetworkUrl(useMainnet), {"tokenPublicKey"})>>

\* Lines 606-627: the account arrives.  `accountInfo?.value?.data` is
\* undefined for a null value and reading .program of it throws a
\* TypeError; the data of an account the node does not parse is a Buffer,
\* whose .program is undefined, so that it is taken for an asset that is not
\* of the 2022 program, as is a parsed account of any other program.
InfoOnAccount(accountInfo) ==
    /\ pc = "info_account"
    /\ tokenInfo' = accountInfo
    /\ IF accountInfo.value = "null"
       THEN /\ Throw("TypeError")
            /\ UNCHANGED <<calls, logs>>
       ELSE IF accountInfo.value = "parsed"
               /\ accountInfo.program = "spl-token-2022"
       THEN /\ calls' = Append(calls, Call("getTokenMetadata",
                                  getNetworkUrl(args.useMainnet),
                                  {"tokenPublicKey"}))
            /\ pc' = "info_metadata"
            /\ UNCHANGED <<result, logs>>
       ELSE /\ logs' = Append(logs, {})
            /\ pc' = "returned"
            /\ result' = Returned([name |-> "", symbol |-> ""])
            /\ UNCHANGED calls
    /\ UNCHANGED <<flow, args, tokenProgramId, tokenDecimals,
                   senderTokenAddress, senderAccountInfo,
                   receiverTokenAddress, receiverAccountInfo, blockhash,
                   instructions, ixAmount, tx, serializedHex, verified,
                   submitted, nflows, outer>>

\* Lines 616-629: the metadata arrives; `metadata?.name || ""`.
InfoOnMetadata(metadata) ==
    /\ pc = "info_metadata"
    /\ pc' = "returned"
    /\ result' = Returned(IF metadata = <<>>
                          THEN [name |-> "", symbol |-> ""]
                          ELSE [name |-> metadata[1].name,
                                symbol |-> metadata[1].symbol])
    /\ UNCHANGED <<flow, args, locals, calls, submitted, logs, nflows, outer>>

InfoNext ==
    \/ \E tokenAddress \in Tokens \cup {BadAddress}, useMainnet \in BOOLEAN :
            InfoStart(tokenAddress, useMainnet)
    \/ \E accountInfo \in AccountResponses : InfoOnAccount(accountInfo)
    \/ \E metadata \in Metadatas : InfoOnMetadata(metadata)
    \/ OnRejected

InfoSpec == Init /\ [][InfoNext]_vars

(***************************************************************************)
(* signAndSendSPLTransferTransaction with the decimals and the program     *)
(* fixed (part_001 309-443)                                                *)
(***************************************************************************)

PYUSD_DECIMALS == 6

\* Lines 317-345: up to the await of getAccountInfo for the sender.
FixedStart(key, sender, recipient, dec, token, useMainnet) ==
    /\ Fresh
    /\ flow' = "fixed"
    /\ args' = [scalarKey |-> key, from |-> sender, to |-> recipient,
                amount |-> dec, tokenAddress |-> token,
                useMainnet |-> useMainnet]
    /\ IF ~IsPublicKey(token) \/ ~IsPublicKey(sender) \/ ~IsPublicKey(recipient)
       THEN /\ Throw("InvalidPublicKey")
            /\ calls' = <<>>
       ELSE /\ pc' = "fixed_sender"
            /\ result' = NoResult
            /\ calls' = <<Call("getAccountInfo", getNetworkUrl(useMainnet),
                               {"senderTokenAddress"})>>

\* A missing sender account is not looked at.
FixedOnSenderAccount_goesOn(accountInfo) ==
    /\ pc = "fixed_sender"
    /\ senderAccountInfo' = accountInfo
    /\ senderTokenAddress' =
           getAssociatedTokenAddress(args.tokenAddress, args.from,
                                     TOKEN_2022_PROGRAM_ID)
    /\ receiverTokenAddress' =
           getAssociatedTokenAddress(args.tokenAddress, args.to,
                                     TOKEN_2022_PROGRAM_ID)
    /\ calls' = Append(calls, Call("getAccountInfo",
                           getNetworkUrl(args.useMainnet),
                           {"receiverTokenAddress"}))
    /\ pc' = "fixed_recv"
    /\ UNCHANGED <<flow, args, tokenInfo, tokenProgramId, tokenDecimals,
                   receiverAccountInfo, blockhash, instructions, ixAmount, tx,
                   serializedHex, verified, submitted, logs, result, nflows,
                   outer>>

\* Lines 338-365: the sender's associated account arrives; without one the
\* function logs and returns null.
FixedOnSenderAccount(accountInfo) ==
    /\ pc = "fixed_sender"
    /\ senderAccountInfo' = accountInfo
    /\ senderTokenAddress' =
           getAssociatedTokenAddress(args.tokenAddress, args.from,
                                     TOKEN_2022_PROGRAM_ID)
    /\ IF Missing(accountInfo)
       THEN /\ logs' = Append(logs, {"sender", "tokenPublicKey"})
            /\ pc' = "returned"
            /\ result' = Returned("null")
            /\ UNCHANGED <<receiverTokenAddress, calls>>
       ELSE /\ receiverTokenAddress' =
                   getAssociatedTokenAddress(args.tokenAddress, args.to,
                                             TOKEN_2022_PROGRAM_ID)
            /\ calls' = Append(calls, Call("getAccountInfo",
                                   getNetworkUrl(args.useMainnet),
                                   {"receiverTokenAddress"}))
            /\ pc' = "fixed_recv"
            /\ UNCHANGED <<result, logs>>
    /\ UNCHANGED <<flow, args, tokenInfo, tokenProgramId, tokenDecimals,
                   receiverAccountInfo, blockhash, instructions, ixAmount, tx,
                   serializedHex, verified, submitted, nflows, outer>>

\* Lines 363-387: the recipient's associated account arrives.
FixedOnReceiverAccount(accountInfo) ==
    /\ pc = "fixed_recv"
    /\ receiverAccountInfo' = accountInfo
    /\ IF Missing(accountInfo)
       THEN /\ logs' = Append(logs, {"receiverTokenAddress", "recipient",
                                     "tokenPublicKey", "sender"})
            /\ instructions' = push(instructions,
                   createAssociatedTokenAccountInstruction(args.from,
                       receiverTokenAddress, args.to, args.tokenAddress,
                       TOKEN_2022_PROGRAM_ID))
       ELSE UNCHANGED <<logs, instructions>>
    /\ calls' = Append(calls, Call("getLatestBlockhash",
                           getNetworkUrl(args.useMainnet), {"commitment"}))
    /\ pc' = "fixed_blockhash"
    /\ UNCHANGED <<flow, args, tokenInfo, tokenProgramId, tokenDecimals,
                   senderTokenAddress, senderAccountInfo,
                   receiverTokenAddress, blockhash, ixAmount, tx,
                   serializedHex, verified, submitted, result, nflows, outer>>

\* Lines 387-425: the blockhash arrives; build the transfer instruction,
\* compile, serialize, ask for a signature.
FixedOnBlockhash(latest) ==
    /\ pc = "fixed_blockhash"
    /\ blockhash' = latest
    /\ LET amount == NumberTimesPow10(Number(args.amount), PYUSD_DECIMALS)
           ixs == push(instructions,
                      createTransferCheckedInstruction(senderTokenAddress,
                          args.tokenAddress, receiverTokenAddress, args.from,
                          amount, PYUSD_DECIMALS, TOKEN_2022_PROGRAM_ID))
           t == NewTx("v0", args.from, latest, ixs)
       IN  /\ ixAmount' = <<amount>>
           /\ IF ~IsInteger(amount)
              THEN /\ Throw("RangeError")
                   /\ UNCHANGED <<instructions, tx, serializedHex, calls, logs>>
              ELSE /\ instructions' = ixs
                   /\ tx' = t
                   /\ logs' = Append(logs, {"transaction"})
                   /\ serializedHex' = <<ToHex(serializeMessage(t))>>
                   /\ calls' = Append(calls, Call("signAsync", "signer",
                                          {"serializedHex", "privateKeyHex"}))
                   /\ pc' = "fixed_sign"
                   /\ UNCHANGED result
    /\ UNCHANGED <<flow, args, resolved, verified, submitted, nflows, outer>>

\* Lines 425-435: the signature arrives; attach and submit.
FixedOnSignature(genuine) ==
    /\ pc = "fixed_sign"
    /\ LET sig == Signature(FromHex(serializedHex[1]), args.scalarKey, genuine)
           t == addSignature(tx, args.from, sig)
       IN  /\ tx' = t
           /\ submitted' = Append(submitted, t)
    /\ calls' = Append(calls, Call("sendRawTransaction",
                           getNetworkUrl(args.useMainnet), {"rawTransaction"}))
    /\ pc' = "fixed_send"
    /\ UNCHANGED <<flow, args, resolved, blockhash, instructions, ixAmount,
                   serializedHex, verified, logs, result, nflows, outer>>

\* Lines 434-436: the node accepted the transaction.
FixedOnSent(hash) ==
    /\ pc = "fixed_send"
    /\ pc' = "returned"
    /\ result' = Returned(hash)
    /\ UNCHANGED <<flow, args, locals, calls, submitted, logs, nflows, outer>>

\* Lines 437-442: sendRawTransaction rejects; the catch logs the error and
\* calls its getLogs, which asks the node without being awaited, and the
\* function returns null.  An error that is no SendTransactionError (the
\* node was not reached) has no getLogs, and the TypeError of calling it
\* leaves the function.
FixedOnSendRejected(isSendTransactionError) ==
    /\ pc = "fixed_send"
    /\ logs' = Append(logs, {"e"})
    /\ IF isSendTransactionError
       THEN /\ calls' = Append(calls, Call("getLogs",
                                  getNetworkUrl(args.useMainnet), {}))
            /\ pc' = "returned"
            /\ result' = Returned("null")
       ELSE /\ Throw("TypeError")
            /\ UNCHANGED calls
    /\ UNCHANGED <<flow, args, locals, submitted, nflows, outer>>

FixedNext ==
    \/ \E key \in Keys, sender \in Owners, recipient \in Owners \cup {BadAddress},
          dec \in Amounts, token \in Mints, useMainnet \in BOOLEAN :
            FixedStart(key, sender, recipient, dec, token, useMainnet)
    \/ \E accountInfo \in AccountInfos : FixedOnSenderAccount(accountInfo)
    \/ \E accountInfo \in AccountInfos : FixedOnReceiverAccount(accountInfo)
    \/ \E latest \in Blockhashes : FixedOnBlockhash(latest)
    \/ \E genuine \in BOOLEAN : FixedOnSignature(genuine)
    \/ \E hash \in TxIds : FixedOnSent(hash)
    \/ \E isSendTransactionError \in BOOLEAN :
            FixedOnSendRejected(isSendTransactionError)
    \/ OnRejected

FixedSpec == Init /\ [][FixedNext]_vars

(***************************************************************************)
(* Two transfers in flight: transferSol / transferSpl are clicked while an *)
(* earlier call is still suspended at an await.  Each call of the async    *)
(* functions has its own locals; the variables above are those of the call *)
(* whose continuation runs next, `parked` holds those of the other call.   *)
(***************************************************************************)

\* The locals of the call that is running.
Activation ==
    [pc |-> pc, flow |-> flow, args |-> args, tokenInfo |-> tokenInfo,
     tokenProgramId |-> tokenProgramId, tokenDecimals |-> tokenDecimals,
     senderTokenAddress |-> senderTokenAddress,
     senderAccountInfo |-> senderAccountInfo,
     receiverTokenAddress |-> receiverTokenAddress,
     receiverAccountInfo |-> receiverAccountInfo, blockhash |-> blockhash,
     instructions |-> instructions, ixAmount |-> ixAmount, tx |-> tx,
     serializedHex |-> serializedHex, verified |-> verified, calls |-> calls,
     submitted |-> submitted, logs |-> logs, result |-> result]

\* The instruction list is one array shared by all calls.
Switch_sharedInstructions ==
    /\ parked' = Activation
    /\ pc' = parked.pc
    /\ flow' = parked.flow
    /\ args' = parked.args
    /\ tokenInfo' = parked.tokenInfo
    /\ tokenProgramId' = parked.tokenProgramId
    /\ tokenDecimals' = parked.tokenDecimals
    /\ senderTokenAddress' = parked.senderTokenAddress
    /\ senderAccountInfo' = parked.senderAccountInfo
    /\ receiverTokenAddress' = parked.receiverTokenAddress
    /\ receiverAccountInfo' = parked.receiverAccountInfo
    /\ blockhash' = parked.blockhash
    /\ ixAmount' = parked.ixAmount
    /\ tx' = parked.tx
    /\ serializedHex' = parked.serializedHex
    /\ verified' = parked.verified
    /\ calls' = parked.calls
    /\ submitted' = parked.submitted
    /\ logs' = parked.logs
    /\ result' = parked.result
    /\ UNCHANGED <<instructions, nflows, app>>

\* The event loop turns to the other call: whichever call's pending promise
\* settles next continues, each over its own locals.
Switch ==
    /\ parked' = Activation
    /\ pc' = parked.pc
    /\ flow' = parked.flow
    /\ args' = parked.args
    /\ tokenInfo' = parked.tokenInfo
    /\ tokenProgramId' = parked.tokenProgramId
    /\ tokenDecimals' = parked.tokenDecimals
    /\ senderTokenAddress' = parked.senderTokenAddress
    /\ senderAccountInfo' = parked.senderAccountInfo
    /\ receiverTokenAddress' = parked.receiverTokenAddress
    /\ receiverAccountInfo' = parked.receiverAccountInfo
    /\ blockhash' = parked.blockhash
    /\ instructions' = parked.instructions
    /\ ixAmount' = parked.ixAmount
    /\ tx' = parked.tx
    /\ serializedHex' = parked.serializedHex
    /\ verified' = parked.verified
    /\ calls' = parked.calls
    /\ submitted' = parked.submitted
    /\ logs' = parked.logs
    /\ result' = parked.result
    /\ UNCHANGED <<nflows, app>>



(***************************************************************************)
(* The App component (App.tsx): importSolanaWallet, toggleIsMainnet and    *)
(* the effect fetchSplBalances, with getSolBalance.  A task is one run of  *)
(* an async handler or of the effect that is suspended at an await; it     *)
(* keeps the values its closure captured and its locals.  A step runs the  *)
(* code from the settling of the awaited promise to the next await that    *)
(* waits for the network: continuations of promises that are settled       *)
(* already run in the same turn of the event loop.                         *)
(***************************************************************************)

\* Clicks of Import and of the network buttons in one behaviour, and the
\* runs in flight at which the user still clicks (a click starts up to two).
\* Edits of the key field are not counted.
MaxEvents == 2
MaxInFlight == 3

\* A base-58 string that decodes to 31 bytes; the keys decode to 32.
BadKey == "k?"
DecodedLength(privateKey) == IF privateKey \in Keys THEN 32 ELSE 31

\* getPublicKey (part_001 519-534): what the promise settles to, and whether
\* getPublicKeyAsync was called on the way.
getPublicKey(privateKey) ==
    IF DecodedLength(privateKey) # 32
    THEN [kind |-> "error", value |-> "Invalid private key length",
          derived |-> FALSE]
    ELSE [kind |-> "value", value |-> PubOf[privateKey], derived |-> TRUE]

\* What getSPLTokenBalances reports for a wallet on a network: the wallet
\* of k1 holds both assets on mainnet and only M on devnet, the other wallet
\* holds none.
Dict(S, v) == [a \in S |-> v]
TokenBalancesOf(address, useMainnet) ==
    IF address # "A" THEN Dict({}, 10)
    ELSE IF useMainnet THEN Dict(Tokens, 10)
    ELSE Dict({"M"}, 10)
TokenBalances ==
    {TokenBalancesOf(address, useMainnet) :
        address \in Owners, useMainnet \in BOOLEAN}

\* What getSPLTokenInfo resolves to for each asset: the name and symbol of
\* its metadata (M), or empty strings for an asset that carries none (N).
TokenInfoOf ==
    [a \in Tokens |-> IF a = "M" THEN [name |-> "USD Coin", symbol |-> "USDC"]
                                 ELSE [name |-> "", symbol |-> ""]]

\* a || b on strings.
Or(a, b) == IF a = "" THEN b ELSE a

Placeholder == [name |-> "Unknown Token", symbol |-> "UNKNOWN"]

\* What the getBalance request of getSolBalance comes to: fetch rejects
\* (network unreachable), the body has no result (an RPC error, for which
\* body.result.value throws), or the body carries result.value: the
\* balance the wallet has on the network asked, which is not 0.
LamportsOf == [useMainnet \in BOOLEAN |-> IF useMainnet THEN 5000 ELSE 7000]
Lamports == {LamportsOf[useMainnet] : useMainnet \in BOOLEAN}
BalanceReads ==
    {[kind |-> "unreachable", value |-> 0], [kind |-> "noResult", value |-> 0]}
    \cup {[kind |-> "value", value |-> v] : v \in Lamports}

\* The number lamports / LAMPORTS_PER_SOL, kept as the exact quotient.
Sol(lamports) == [lamports |-> lamports, per |-> Pow10(LAMPORTS_PER_SOL_EXP)]

\* getSolBalance (part_001 483-514) on what its request came to: the promise
\* chain ends in a catch that logs the error and returns 0, so the function
\* never rejects.
getSolBalance(read) ==
    IF read.kind = "value" THEN Returned(Sol(read.value))
    ELSE Returned(Sol(0))

NoTask == [kind |-> "", pc |-> "", key |-> "", address |-> "",
           useMainnet |-> TRUE, balances |-> <<>>,
           metadata |-> <<>>, pending |-> {}, warned |-> {}]

\* The runs in flight form a bag: they are told apart by what they hold,
\* not by an order.  Replace takes the run t out and puts the runs of the
\* bag ts in.
Remove(tasks0, t) == tasks0 (-) SetToBag({t})
Replace(tasks0, t, ts) == Remove(tasks0, t) (+) ts
InFlight == BagCardinality(tasks)

\* The effect of App.tsx 67-108 runs when walletAddress or isMainnet has
\* changed: with a wallet it calls getSPLTokenBalances, without it does
\* nothing.
Effect(address, useMainnet) ==
    IF address = "" THEN EmptyBag
    ELSE SetToBag({[NoTask EXCEPT !.kind = "effect",
                                  !.pc = "getSPLTokenBalances",
                                  !.address = address,
                                  !.useMainnet = useMainnet]})

\* App.tsx 288-294: the key field is edited; the form is shown as long as
\* no wallet is imported (App.tsx 265).
setScalarKey(key) ==
    /\ walletAddress = ""
    /\ key # scalarKey
    /\ scalarKey' = key
    /\ UNCHANGED <<walletAddress, walletBalance, isMainnet, splTokenBalances,
                   tokenMetadata, tasks, alerts, events, vars, parked, shown>>

\* App.tsx 114-120: Import is clicked, which the form offers as long as no
\* wallet is imported; with an empty key field the handler returns at once.
importSolanaWallet ==
    /\ walletAddress = ""
    /\ scalarKey # ""
    /\ events < MaxEvents
    /\ InFlight + 2 <= MaxInFlight
    /\ events' = events + 1
    /\ tasks' = tasks (+) SetToBag({[NoTask EXCEPT !.kind = "import",
                                                   !.pc = "getPublicKey",
                                                   !.key = scalarKey,
                                                   !.useMainnet = isMainnet]})
    /\ UNCHANGED <<walletAddress, walletBalance, isMainnet, splTokenBalances,
                   tokenMetadata, alerts, vars, parked, scalarKey, shown>>

\* The catch alerts and the handler goes on to read the balance of the
\* address it does not have.
ImportOnPublicKey_keepsGoing(t) ==
    /\ t \in BagToSet(tasks)
    /\ t.pc = "getPublicKey"
    /\ LET address == getPublicKey(t.key)
       IN  /\ alerts' = IF address.kind = "error" THEN alerts + 1 ELSE alerts
           /\ walletAddress' = IF address.kind = "error" THEN walletAddress
                               ELSE address.value
           /\ tasks' = Replace(tasks, t,
                           SetToBag({[t EXCEPT
                                          !.pc = "getSolBalance",
                                          !.address = walletAddress']})
                           (+) (IF walletAddress' # walletAddress
                                THEN Effect(walletAddress', isMainnet)
                                ELSE EmptyBag))
    /\ UNCHANGED <<walletBalance, isMainnet, splTokenBalances, tokenMetadata,
                   events, vars, parked, scalarKey, shown>>

\* App.tsx 120-128: getPublicKey settles.  It throws on a key that is not
\* 32 bytes long and the handler alerts; otherwise the address is set (which
\* runs the effect when it differs from the one shown) and getSolBalance is
\* called with the isMainnet of the click.
ImportOnPublicKey(t) ==
    /\ t \in BagToSet(tasks)
    /\ t.pc = "getPublicKey"
    /\ LET address == getPublicKey(t.key)
       IN  IF address.kind = "error"
           THEN /\ alerts' = alerts + 1
                /\ tasks' = Remove(tasks, t)
                /\ UNCHANGED walletAddress
           ELSE /\ walletAddress' = address.value
                /\ tasks' = Replace(tasks, t,
                                SetToBag({[t EXCEPT
                                               !.pc = "getSolBalance",
                                               !.address = address.value]})
                                (+) (IF address.value # walletAddress
                                     THEN Effect(address.value, isMainnet)
                                     ELSE EmptyBag))
                /\ UNCHANGED alerts
    /\ UNCHANGED <<walletBalance, isMainnet, splTokenBalances, tokenMetadata,
                   events, vars, parked, scalarKey, shown>>

\* The handler also forgets the key that was typed.
toggleIsMainnet_reset(updatedIsMainnet) ==
    /\ walletAddress # ""
    /\ events < MaxEvents
    /\ InFlight + 2 <= MaxInFlight
    /\ events' = events + 1
    /\ isMainnet' = updatedIsMainnet
    /\ scalarKey' = ""
    /\ IF walletAddress # "" /\ updatedIsMainnet # isMainnet
       THEN /\ walletBalance' = <<>>
            /\ splTokenBalances' = <<>>
            /\ tokenMetadata' = <<>>
            /\ tasks' = tasks
                         (+) SetToBag({[NoTask EXCEPT
                                            !.kind = "toggle",
                                            !.pc = "getSolBalance",
                                            !.address = walletAddress,
                                            !.useMainnet = updatedIsMainnet]})
                         (+) Effect(walletAddress, updatedIsMainnet)
       ELSE UNCHANGED <<walletBalance, splTokenBalances, tokenMetadata, tasks>>
    /\ UNCHANGED <<walletAddress, alerts, vars, parked, shown>>

\* App.tsx 134-153: a network button is clicked; the buttons belong to the
\* dashboard, which is shown once a wallet is imported (App.tsx 301).
toggleIsMainnet(updatedIsMainnet) ==
    /\ walletAddress # ""
    /\ events < MaxEvents
    /\ InFlight + 2 <= MaxInFlight
    /\ events' = events + 1
    /\ isMainnet' = updatedIsMainnet
    /\ IF walletAddress # "" /\ updatedIsMainnet # isMainnet
       THEN /\ walletBalance' = <<>>
            /\ splTokenBalances' = <<>>
            /\ tokenMetadata' = <<>>
            /\ tasks' = tasks
                         (+) SetToBag({[NoTask EXCEPT
                                            !.kind = "toggle",
                                            !.pc = "getSolBalance",
                                            !.address = walletAddress,
                                            !.useMainnet = updatedIsMainnet]})
                         (+) Effect(walletAddress, updatedIsMainnet)
       ELSE UNCHANGED <<walletBalance, splTokenBalances, tokenMetadata, tasks>>
    /\ UNCHANGED <<walletAddress, alerts, vars, parked, scalarKey, shown>>

\* part_001 491-513, App.tsx 122-127 and 152-153: the request of
\* getSolBalance has come to read and getSolBalance settles.  What it
\* resolves to is shown as the balance, and the toggle goes on to read the
\* token balances.  A rejection would reach the catch of importSolanaWallet,
\* which alerts, and would end toggleIsMainnet, which awaits outside its try.
OnSolBalance(t, read) ==
    /\ t \in BagToSet(tasks)
    /\ t.pc = "getSolBalance"
    /\ read.kind = "value" => read.value = LamportsOf[t.useMainnet]
    /\ LET solBalance == getSolBalance(read)
       IN  IF solBalance.kind = "value"
           THEN /\ walletBalance' = <<solBalance.value>>
                /\ tasks' = IF t.kind = "import" THEN Remove(tasks, t)
                            ELSE Replace(tasks, t,
                                    SetToBag({[t EXCEPT
                                        !.pc = "getSPLTokenBalances"]}))
                /\ UNCHANGED alerts
           ELSE /\ tasks' = Remove(tasks, t)
                /\ alerts' = IF t.kind = "import" THEN alerts + 1 ELSE alerts
                /\ UNCHANGED walletBalance
    /\ UNCHANGED <<walletAddress, isMainnet, splTokenBalances, tokenMetadata,
                   events, vars, parked, scalarKey, shown>>

\* App.tsx 71-100 and 156-186: the balances arrive; they are shown, and one
\* getSPLTokenInfo is called for every asset before Promise.all is awaited.
\* Promise.all of no promise is resolved at once and the empty metadata is
\* published in the same turn.
OnTokenBalances(t, balances) ==
    /\ t \in BagToSet(tasks)
    /\ t.pc = "getSPLTokenBalances"
    /\ balances = TokenBalancesOf(t.address, t.useMainnet)
    /\ splTokenBalances' = balances
    /\ IF DOMAIN balances = {}
       THEN /\ tokenMetadata' = Dict({}, Placeholder)
            /\ tasks' = Remove(tasks, t)
       ELSE /\ tasks' = Replace(tasks, t,
                            SetToBag({[t EXCEPT
                                           !.pc = "metadata",
                                           !.balances = balances,
                                           !.metadata = Dict({}, Placeholder),
                                           !.pending = DOMAIN balances]}))
            /\ UNCHANGED tokenMetadata
    /\ UNCHANGED <<walletAddress, walletBalance, isMainnet, alerts, events,
                   vars, parked, scalarKey, shown>>

\* App.tsx 102-104 and 188-190: getSPLTokenBalances rejects; the error is
\* logged and nothing is shown.
OnTokenBalancesRejected(t) ==
    /\ t \in BagToSet(tasks)
    /\ t.pc = "getSPLTokenBalances"
    /\ tasks' = Remove(tasks, t)
    /\ UNCHANGED <<walletAddress, walletBalance, isMainnet, splTokenBalances,
                   tokenMetadata, alerts, events, vars, parked, scalarKey, shown>>

\* metadata[address] = entry.
Put(metadata, address, entry) ==
    [a \in DOMAIN metadata \cup {address} |->
        IF a = address THEN entry ELSE metadata[a]]

\* The rejection of one read is not caught in the callback, Promise.all
\* rejects, the outer catch logs it and nothing is published.
Settle_aborts(t, address, entry, warn) ==
    IF warn
    THEN /\ tasks' = Remove(tasks, t)
         /\ UNCHANGED tokenMetadata
    ELSE LET metadata == Put(t.metadata, address, entry)
         IN  IF t.pending = {address}
             THEN /\ tokenMetadata' = metadata
                  /\ tasks' = Remove(tasks, t)
             ELSE /\ tasks' = Replace(tasks, t,
                                  SetToBag({[t EXCEPT
                                                 !.pending = @ \ {address},
                                                 !.metadata = metadata]}))
                  /\ UNCHANGED tokenMetadata

\* App.tsx 83-100 and 169-186: the callback of one asset stores its entry
\* and its promise resolves; when it was the last one pending, Promise.all
\* resolves and the metadata is published.
Settle(t, address, entry, warn) ==
    LET metadata == Put(t.metadata, address, entry)
    IN  IF t.pending = {address}
        THEN /\ tokenMetadata' = metadata
             /\ tasks' = Remove(tasks, t)
        ELSE /\ tasks' = Replace(tasks, t,
                             SetToBag({[t EXCEPT
                                            !.pending = @ \ {address},
                                            !.warned = IF warn
                                                       THEN @ \cup {address}
                                                       ELSE @,
                                            !.metadata = metadata]}))
             /\ UNCHANGED tokenMetadata

\* App.tsx 82-86 and 168-172: the metadata of one asset arrives.
OnTokenInfo(t, address) ==
    /\ t \in BagToSet(tasks)
    /\ t.pc = "metadata"
    /\ address \in t.pending
    /\ LET info == TokenInfoOf[address]
       IN  Settle(t, address, [name |-> Or(info.name, "Unknown Token"),
                              symbol |-> Or(info.symbol, "UNKNOWN")], FALSE)
    /\ UNCHANGED <<walletAddress, walletBalance, isMainnet, splTokenBalances,
                   alerts, events, vars, parked, scalarKey, shown>>

\* App.tsx 87-96 and 173-182: the metadata read of one asset rejects; the
\* callback warns and puts the placeholder.
OnTokenInfoRejected(t, address) ==
    /\ t \in BagToSet(tasks)
    /\ t.pc = "metadata"
    /\ address \in t.pending
    /\ Settle(t, address, Placeholder, TRUE)
    /\ UNCHANGED <<walletAddress, walletBalance, isMainnet, splTokenBalances,
                   alerts, events, vars, parked, scalarKey, shown>>

AppNext ==
    \/ \E key \in Keys \cup {BadKey} : setScalarKey(key)
    \/ importSolanaWallet
    \/ \E t \in BagToSet(tasks) : ImportOnPublicKey(t)
    \/ \E updatedIsMainnet \in BOOLEAN : toggleIsMainnet(updatedIsMainnet)
    \/ \E t \in BagToSet(tasks), read \in BalanceReads : OnSolBalance(t, read)
    \/ \E t \in BagToSet(tasks), balances \in TokenBalances :
            OnTokenBalances(t, balances)
    \/ \E t \in BagToSet(tasks) : OnTokenBalancesRejected(t)
    \/ \E t \in BagToSet(tasks), address \in Tokens : OnTokenInfo(t, address)
    \/ \E t \in BagToSet(tasks), address \in Tokens :
            OnTokenInfoRejected(t, address)

AppSpec == Init /\ [][AppNext]_app

(***************************************************************************)
(* The dashboard: the transfer forms and the network buttons, shown once a *)
(* wallet is imported (App.tsx 301).                                       *)
(***************************************************************************)

\* The wallet the transfers are made from, and what is transferred.
PairKey == "k1"
PairAmounts == {[n |-> 25, k |-> 1]}

\* What the amount fields hold: 0 until they are edited (App.tsx 45, 48),
\* then what parseFloat made of the text.
FormAmounts == {[n |-> 0, k |-> 0], [n |-> 25, k |-> 1]}

\* The entry the effect publishes for an asset whose metadata read resolved.
EntryOf(address) ==
    [name |-> Or(TokenInfoOf[address].name, "Unknown Token"),
     symbol |-> Or(TokenInfoOf[address].symbol, "UNKNOWN")]

\* The wallet of PairKey has been imported on mainnet and every read the
\* import started has resolved; no transfer has been made.
Imported ==
    /\ NoCall
    /\ scalarKey = PairKey
    /\ walletAddress = PubOf[PairKey]
    /\ walletBalance = <<Sol(LamportsOf[TRUE])>>
    /\ isMainnet = TRUE
    /\ splTokenBalances = TokenBalancesOf(PubOf[PairKey], TRUE)
    /\ tokenMetadata = [address \in Tokens |-> EntryOf(address)]
    /\ tasks = EmptyBag
    /\ alerts = 0
    /\ events = 1
    /\ txhash = <<>>
    /\ splTxhash = <<>>
    /\ splError = <<>>

\* transferSol (App.tsx 198-209): the click passes the key, the address and
\* the network of the state, and the form's values, to a new call, here the
\* call that has not started yet.
transferSol(recipient, transferAmount) ==
    /\ walletAddress # ""
    /\ recipient # ""
    /\ pc = "idle"
    /\ SolStart(scalarKey, walletAddress, recipient, transferAmount, isMainnet)

\* transferSpl (App.tsx 217-230); the asset is one the Select offers
\* (App.tsx 479).
transferSpl(splRecipient, splTransferAmount, selectedTokenAddress) ==
    /\ walletAddress # ""
    /\ splRecipient # ""
    /\ selectedTokenAddress \in DOMAIN splTokenBalances
    /\ pc = "idle"
    /\ SplStart(scalarKey, walletAddress, splRecipient, splTransferAmount,
                selectedTokenAddress, isMainnet)

PairNext ==
    \/ \E recipient \in Owners, amount \in PairAmounts :
            transferSol(recipient, amount)
    \/ \E recipient \in Owners, amount \in PairAmounts, token \in Mints :
            transferSpl(recipient, amount, token)
    \/ Switch
    \/ Respond

PairSpec == Imported /\ [][PairNext]_<<vars, outer>>

\* The call is over and its locals are gone.
Finish ==
    /\ pc' = "idle"
    /\ flow' = "none"
    /\ args' = NoArgs
    /\ tokenInfo' = NoAccount
    /\ tokenProgramId' = ""
    /\ tokenDecimals' = Undefined
    /\ senderTokenAddress' = NoAddress
    /\ senderAccountInfo' = "unread"
    /\ receiverTokenAddress' = NoAddress
    /\ receiverAccountInfo' = "unread"
    /\ blockhash' = ""
    /\ instructions' = <<>>
    /\ ixAmount' = <<>>
    /\ tx' = NoTx
    /\ serializedHex' = NoHex
    /\ verified' = FALSE
    /\ calls' = <<>>
    /\ submitted' = <<>>
    /\ logs' = <<>>
    /\ result' = NoResult
    /\ UNCHANGED <<nflows, parked>>

\* App.tsx 203-211: signAndSendSolTransaction settles.  The handler has no
\* catch: a rejection ends it before setTxhash.
OnTransferSol ==
    /\ flow = "sol"
    /\ pc \in Terminal
    /\ txhash' = IF pc = "returned" THEN <<result.value>> ELSE txhash
    /\ Finish
    /\ UNCHANGED <<walletAddress, walletBalance, isMainnet, splTokenBalances,
                   tokenMetadata, tasks, alerts, events, scalarKey, splTxhash,
                   splError>>

\* The catch sets the error and leaves the id of the last success.
OnTransferSpl_keepsHash ==
    /\ flow = "spl"
    /\ pc \in Terminal
    /\ IF pc = "returned"
       THEN /\ splTxhash' = <<result.value>>
            /\ splError' = <<>>
       ELSE /\ splTxhash' = splTxhash
            /\ splError' = <<result.value>>
    /\ Finish
    /\ UNCHANGED <<walletAddress, walletBalance, isMainnet, splTokenBalances,
                   tokenMetadata, tasks, alerts, events, scalarKey, txhash>>

\* App.tsx 222-237: signAndSendSPLTransferTransaction settles; the try sets
\* the id and clears the error, the catch clears the id and sets the
\* error's message.
OnTransferSpl ==
    /\ flow = "spl"
    /\ pc \in Terminal
    /\ IF pc = "returned"
       THEN /\ splTxhash' = <<result.value>>
            /\ splError' = <<>>
       ELSE /\ splTxhash' = <<>>
            /\ splError' = <<result.value>>
    /\ Finish
    /\ UNCHANGED <<walletAddress, walletBalance, isMainnet, splTokenBalances,
                   tokenMetadata, tasks, alerts, events, scalarKey, txhash>>

\* One transfer at a time is made from the forms, each with the amount
\* field untouched or edited.
FormNext ==
    \/ \E amount \in FormAmounts : transferSol("B", amount)
    \/ \E amount \in FormAmounts, token \in Mints :
            transferSpl("B", amount, token)
    \/ Respond
    \/ OnTransferSol
    \/ OnTransferSpl

FormSpec == Imported /\ [][FormNext]_<<vars, outer>>

\* One transfer at a time, while the network buttons are clicked and the
\* reads they start come back.
UiNext ==
    \/ \E updatedIsMainnet \in BOOLEAN : toggleIsMainnet(updatedIsMainnet)
    \/ \E t \in BagToSet(tasks), read \in BalanceReads : OnSolBalance(t, read)
    \/ \E t \in BagToSet(tasks), balances \in TokenBalances :
            OnTokenBalances(t, balances)
    \/ \E t \in BagToSet(tasks) : OnTokenBalancesRejected(t)
    \/ \E t \in BagToSet(tasks), address \in Tokens : OnTokenInfo(t, address)
    \/ \E t \in BagToSet(tasks), address \in Tokens :
            OnTokenInfoRejected(t, address)
    \/ \E amount \in PairAmounts : transferSol("B", amount)
    \/ \E amount \in PairAmounts, token \in Mints :
            transferSpl("B", amount, token)
    \/ Respond
    \/ OnTransferSol
    \/ OnTransferSpl

UiSpec == Imported /\ [][UiNext]_<<vars, outer>>

(***************************************************************************)
(* Properties.                                                             *)
(***************************************************************************)

Methods(cs) == [i \in 1..Len(cs) |-> cs[i].method]
Types(ixs) == [i \in 1..Len(ixs) |-> ixs[i].type]
Issued(method) == \E i \in 1..Len(calls) : calls[i].method = method

\* C1: in both transfer flows sendRawTransaction is called only after the
\* attached signature was verified locally, against the signable message and
\* the fee payer's public key, and verification succeeded; no flow returns a
\* transaction id without that.
C1_SubmitOnlyAfterVerified ==
    (Issued("sendRawTransaction") \/ pc = "returned") =>
        /\ verified
        /\ \A i \in 1..Len(submitted) :
              LET t == submitted[i]
              IN  /\ t.signatures[t.feePayer] # <<>>
                  /\ Ed25519Verify(t.signatures[t.feePayer][1], Message(t),
                                   t.feePayer)

\* C2: a token transfer whose instruction list is complete holds exactly
\* [account-creation, transfer-checked] when the recipient's associated
\* account was missing and exactly [transfer-checked] when it exists; the
\* missing account is no error, the flow goes on to fetch the blockhash.
C2_InstructionOrder ==
    /\ (flow = "spl" /\ tx.encoding = "v0") =>
          /\ tx.instructions = instructions
          /\ receiverAccountInfo \in {"null", "account"}
          /\ receiverAccountInfo = "null" =>
                Types(instructions) =
                    <<"createAssociatedTokenAccount", "transferChecked">>
          /\ receiverAccountInfo = "account" =>
                Types(instructions) = <<"transferChecked">>
    /\ (flow = "spl" /\ receiverAccountInfo = "null") =>
          /\ Len(calls) >= 4
          /\ calls[4].method = "getLatestBlockhash"
          /\ Types(instructions)[1] = "createAssociatedTokenAccount"

C2_Witness ==
    /\ flow = "spl"
    /\ pc = "returned"
    /\ receiverAccountInfo = "null"
    /\ Len(tx.instructions) = 2

\* C3: a token transfer whose sender has no associated account fails with
\* the sender-has-no-account error and makes no further external call: no
\* recipient existence check, no blockhash fetch, no signer invocation, no
\* sendRawTransaction.
C3_SenderHasNoAccount ==
    (flow = "spl" /\ senderAccountInfo = "null") =>
        /\ pc = "thrown"
        /\ result = Thrown("SenderHasNoAccount")
        /\ Methods(calls) = <<"getParsedAccountInfo", "getAccountInfo">>
        /\ receiverAccountInfo = "unread"
        /\ instructions = <<>>
        /\ serializedHex = NoHex
        /\ submitted = <<>>

C3_Witness ==
    /\ flow = "spl"
    /\ senderAccountInfo = "null"
    /\ pc = "thrown"

\* C4: a token transfer whose asset account reports a program that is
\* neither of the two token programs fails with UnknownAsset before any
\* instruction is built, before the signer is invoked and before
\* sendRawTransaction is called.
C4_UnknownAsset ==
    (/\ flow = "spl"
     /\ tokenInfo.value = "parsed"
     /\ tokenInfo.program \notin {"spl-token", "spl-token-2022"}) =>
        /\ pc = "thrown"
        /\ result = Thrown("UnknownAsset")
        /\ instructions = <<>>
        /\ ~Issued("signAsync")
        /\ ~Issued("sendRawTransaction")

\* C5: a token transfer whose asset account does not exist fails before any
\* associated-account existence check, before any instruction is built and
\* before any signer or sendRawTransaction call.
C5_MissingAsset ==
    (flow = "spl" /\ tokenInfo.value = "null") =>
        /\ pc = "thrown"
        /\ result.kind = "error"
        /\ Methods(calls) = <<"getParsedAccountInfo">>
        /\ senderAccountInfo = "unread"
        /\ receiverAccountInfo = "unread"
        /\ instructions = <<>>
        /\ serializedHex = NoHex
        /\ submitted = <<>>

C5_Witness ==
    /\ flow = "spl"
    /\ tokenInfo.value = "null"
    /\ pc = "thrown"

\* C6: a native transfer whose attached signature does not verify fails with
\* the signature-verification error; sendRawTransaction is never called and
\* no transaction id is returned.
C6_VerificationFailure ==
    (/\ flow = "sol"
     /\ tx.encoding = "legacy"
     /\ tx.signatures[tx.feePayer] # <<>>
     /\ ~Ed25519Verify(tx.signatures[tx.feePayer][1], Message(tx),
                       tx.feePayer)) =>
        /\ pc = "thrown"
        /\ result = Thrown("SignatureVerificationFailed")
        /\ ~Issued("sendRawTransaction")
        /\ submitted = <<>>

C6_Witness ==
    /\ flow = "sol"
    /\ tx.encoding = "legacy"
    /\ tx.signatures[tx.feePayer] # <<>>
    /\ ~tx.signatures[tx.feePayer][1].genuine
    /\ pc = "thrown"

\* C7: within one token transfer the program variant is the one read from
\* the asset's account (Token-2022 exactly when the account reports
\* "spl-token-2022"), and that one variant derives the sender's and the
\* recipient's associated address and is the program of the account-creation
\* and of the transfer-checked instruction.
C7_OneVariant ==
    (flow = "spl" /\ tokenProgramId # "") =>
        /\ tokenProgramId = IF tokenInfo.program = "spl-token-2022"
                            THEN TOKEN_2022_PROGRAM_ID ELSE TOKEN_PROGRAM_ID
        /\ senderTokenAddress.programId = tokenProgramId
        /\ receiverTokenAddress # NoAddress =>
              receiverTokenAddress.programId = tokenProgramId
        /\ \A i \in 1..Len(instructions) :
              /\ instructions[i].programId = tokenProgramId
              /\ instructions[i].type = "createAssociatedTokenAccount" =>
                    instructions[i].associatedToken.programId = tokenProgramId
              /\ instructions[i].type = "transferChecked" =>
                    /\ instructions[i].source.programId = tokenProgramId
                    /\ instructions[i].destination.programId = tokenProgramId

C7_Witness ==
    /\ flow = "spl"
    /\ pc = "returned"
    /\ tokenInfo.program = "spl-token"
    /\ Types(instructions) =
           <<"createAssociatedTokenAccount", "transferChecked">>

\* The external calls of a flow that runs to the end, in order.
Pipeline(f) ==
    IF f = "sol"
    THEN <<"getLatestBlockhash", "signAsync", "sendRawTransaction">>
    ELSE <<"getParsedAccountInfo", "getAccountInfo", "getAccountInfo",
           "getLatestBlockhash", "signAsync", "sendRawTransaction">>

IsPrefix(s, t) == Len(s) <= Len(t) /\ s = SubSeq(t, 1, Len(s))

Count(cs, method) == Cardinality({i \in 1..Len(cs) : cs[i].method = method})

\* C8: no step of a flow is retried: the calls of a flow are an initial part
\* of its pipeline, so the signer and sendRawTransaction are each called at
\* most once, and a step that fails issues no call, nor does any step after
\* it within that flow.
C8_NoRetry ==
    [][/\ IsPrefix(Methods(calls'), Pipeline(flow'))
       /\ Count(calls', "signAsync") <= 1
       /\ Count(calls', "sendRawTransaction") <= 1
       /\ Len(submitted') <= 1
       /\ ((pc = "thrown" \/ pc' = "thrown") /\ nflows' = nflows) =>
              calls' = calls]_vars

C8_Witness ==
    /\ pc = "thrown"
    /\ result = Thrown("SendTransactionError")
    /\ Count(calls, "sendRawTransaction") = 1

\* C9: the private scalar goes to the signer only: no RPC request and no
\* log entry carries it.
KeyValues == {"scalarKey", "privateKeyHex"}

C9_KeyStaysLocal ==
    /\ \A i \in 1..Len(calls) :
          (calls[i].carries \cap KeyValues # {}) =>
              /\ calls[i].method = "signAsync"
              /\ calls[i].method \notin RpcMethods
              /\ calls[i].endpoint \notin {MAINNET_URL, DEVNET_URL}
    /\ \A i \in 1..Len(logs) : logs[i] \cap KeyValues = {}

C9_Witness ==
    /\ pc = "returned"
    /\ Issued("sendRawTransaction")
    /\ \E i \in 1..Len(calls) : "privateKeyHex" \in calls[i].carries
    /\ logs # <<>>

\* C10: the amount passed to the transfer-checked instruction is an integer
\* and equals round(amount * 10^decimals), for every decimal amount and every
\* decimals value the asset's account reports.
C10_AmountIsRounded ==
    (flow = "spl" /\ ixAmount # <<>> /\ tokenDecimals # Undefined) =>
        /\ IsInteger(ixAmount[1])
        /\ IntegerPart(ixAmount[1]) =
               ExactScaled(args.amount.n, args.amount.k, tokenDecimals)

\* C11: the transfer-checked instruction of a token transfer names the
\* sender's associated address as source, the asset as mint, the recipient's
\* associated address as destination, the sender as owner, and the decimals
\* the asset's account reported; with the recipient's account absent, decimals
\* 6 and amount 2.5 the transaction holds the creation and then the checked
\* transfer of 2_500_000 with decimals 6; a flow that returns, returns a
\* transaction id of the node for the one transaction it submitted.
C11_TransferChecked ==
    /\ (flow = "spl" /\ tx.encoding = "v0") =>
          LET ix == tx.instructions[Len(tx.instructions)]
          IN  /\ ix.type = "transferChecked"
              /\ ix.source = [owner |-> args.from, mint |-> args.tokenAddress,
                              programId |-> tokenProgramId]
              /\ ix.mint = args.tokenAddress
              /\ ix.destination = [owner |-> args.to,
                                   mint |-> args.tokenAddress,
                                   programId |-> tokenProgramId]
              /\ ix.owner = args.from
              /\ ix.decimals = tokenInfo.decimals
    /\ (/\ flow = "spl"
        /\ tx.encoding = "v0"
        /\ senderAccountInfo = "account"
        /\ receiverAccountInfo = "null"
        /\ tokenInfo.decimals = 6
        /\ args.amount = [n |-> 25, k |-> 1]) =>
          /\ Types(tx.instructions) =
                 <<"createAssociatedTokenAccount", "transferChecked">>
          /\ IsInteger(tx.instructions[2].amount)
          /\ IntegerPart(tx.instructions[2].amount) = ToLimbs(2500000)
          /\ tx.instructions[2].decimals = 6
    /\ (flow = "spl" /\ pc = "returned") =>
          /\ result.kind = "value"
          /\ result.value \in TxIds
          /\ Len(submitted) = 1
          /\ submitted[1] = tx

C11_Witness ==
    /\ flow = "spl"
    /\ pc = "returned"
    /\ args.from # args.to
    /\ args.amount = [n |-> 25, k |-> 1]
    /\ tokenInfo.decimals = 6
    /\ receiverAccountInfo = "null"
    /\ Len(tx.instructions) = 2

\* C12: an account-creation instruction names the sender as payer, the
\* recipient as owner of the new account, the recipient's derived associated
\* address as the account to create, and the transfer's asset as mint.
C12_AccountCreation ==
    flow = "spl" =>
        \A i \in 1..Len(instructions) :
            instructions[i].type = "createAssociatedTokenAccount" =>
                /\ instructions[i].payer = args.from
                /\ instructions[i].owner = args.to
                /\ instructions[i].associatedToken =
                       [owner |-> args.to, mint |-> args.tokenAddress,
                        programId |-> tokenProgramId]
                /\ instructions[i].mint = args.tokenAddress

C12_Witness ==
    /\ flow = "spl"
    /\ pc = "spl_send"
    /\ args.from # args.to
    /\ instructions[1].type = "createAssociatedTokenAccount"

C14_FeePayerSigns ==
    tx.encoding # "none" =>
        /\ tx.feePayer = args.from
        /\ DOMAIN tx.signatures = {args.from}
        /\ tx.signatures[args.from] # <<>> =>
              /\ Issued("signAsync")
              /\ tx.signatures[args.from][1].key = args.scalarKey
              /\ tx.signatures[args.from][1].msg = FromHex(serializedHex[1])
        /\ Issued("sendRawTransaction") => tx.signatures[args.from] # <<>>
        /\ \A i \in 1..Len(submitted) :
              /\ submitted[i].feePayer = args.from
              /\ submitted[i].signatures = tx.signatures

C14_Witness ==
    /\ pc = "returned"
    /\ args.from # args.to
    /\ PubOf[args.scalarKey] # args.from
    /\ tx.signatures[args.from] # <<>>

\* C15: in both flows the bytes handed to the signer are the hex encoding of
\* the serialized message of the transaction that is submitted: from the
\* serialization on, the instruction list, the fee payer and the blockhash of
\* the transaction stay as they were serialized.
C15_SignedBytesAreSubmitted ==
    /\ serializedHex # NoHex => serializedHex[1] = ToHex(Message(tx))
    /\ \A i \in 1..Len(submitted) :
          /\ serializedHex # NoHex
          /\ serializedHex[1] = ToHex(Message(submitted[i]))
          /\ submitted[i].instructions = instructions

C15_Witness ==
    /\ pc \in {"sol_send", "spl_send"}
    /\ serializedHex # NoHex
    /\ Len(submitted) = 1
    /\ Len(submitted[1].instructions) >= 1

\* C16: when sendRawTransaction fails, the transfer fails with the node's
\* error: it returns neither a transaction id nor null, and it issues no
\* further call, neither a blockhash fetch nor a second submission.
C16_RejectionPropagates ==
    [][/\ (/\ pc \in {"sol_send", "spl_send"}
           /\ ~(\E hash \in TxIds : result' = Returned(hash))) =>
              /\ pc' = "thrown"
              /\ result' = Thrown("SendTransactionError")
              /\ calls' = calls
              /\ submitted' = submitted
       /\ (/\ result = Thrown("SendTransactionError")
           /\ nflows' = nflows) =>
              UNCHANGED <<pc, result, calls, submitted>>]_vars

C16_Witness ==
    /\ flow = "spl"
    /\ pc = "thrown"
    /\ result = Thrown("SendTransactionError")
    /\ Len(submitted) = 1
    /\ Count(calls, "getLatestBlockhash") = 1

\* C17: a failed balance read surfaces as a failure to the caller of
\* getSolBalance rather than as a balance value: in every step in which
\* getSolBalance settles on a request that found the node unreachable or got
\* a response without a result, it settles as an error and no balance is
\* shown for it.
C17_FailedReadPropagates ==
    [][\A t \in BagToSet(tasks), read \in BalanceReads :
          (read.kind # "value" /\ OnSolBalance(t, read))
              => /\ getSolBalance(read).kind = "error"
                 /\ walletBalance' = walletBalance]_app

\* The step stores entry for address in the run t and leaves the entries of
\* the other assets: the run stays in flight without publishing while reads
\* are pending, and publishes one entry per asset of its balances when
\* address was the last one.
Stored(t, address, entry) ==
    IF t.pending = {address}
    THEN /\ CopiesIn(t, tasks') = CopiesIn(t, tasks) - 1
         /\ BagCardinality(tasks') = BagCardinality(tasks) - 1
         /\ DOMAIN tokenMetadata' = DOMAIN t.balances
         /\ tokenMetadata'[address] = entry
         /\ \A b \in DOMAIN t.metadata : tokenMetadata'[b] = t.metadata[b]
    ELSE /\ tokenMetadata' = tokenMetadata
         /\ BagCardinality(tasks') = BagCardinality(tasks)
         /\ \E u \in BagToSet(tasks') :
                /\ u.pc = "metadata"
                /\ u.balances = t.balances
                /\ u.pending = t.pending \ {address}
                /\ u.metadata[address] = entry
                /\ \A b \in DOMAIN t.metadata : u.metadata[b] = t.metadata[b]

\* C18: when the balance read succeeds, one metadata read per asset of the
\* balances is pending at once, nothing is published while one of them is
\* pending, what is published has one entry for every asset of the balances,
\* and an asset whose metadata read failed gets the placeholder ("Unknown
\* Token", "UNKNOWN") while the other entries stay and the run goes on; an
\* asset whose read succeeded gets what was read, or the placeholder where
\* the name and symbol read are empty.
C18_Aggregation ==
    [][\A t \in BagToSet(tasks) :
          CopiesIn(t, tasks') < CopiesIn(t, tasks) =>
            /\ t.pc = "getSPLTokenBalances" =>
                 \A balances \in TokenBalances :
                    OnTokenBalances(t, balances)
                        => /\ splTokenBalances' = balances
                           /\ IF DOMAIN balances = {}
                              THEN DOMAIN tokenMetadata' = {}
                              ELSE /\ tokenMetadata' = tokenMetadata
                                   /\ \E u \in BagToSet(tasks') :
                                          /\ u.pc = "metadata"
                                          /\ u.balances = balances
                                          /\ u.pending = DOMAIN balances
                                          /\ DOMAIN u.metadata = {}
            /\ t.pc = "metadata" =>
                 \A address \in t.pending :
                    /\ OnTokenInfoRejected(t, address)
                           => Stored(t, address, Placeholder)
                    /\ OnTokenInfo(t, address)
                           => Stored(t, address,
                                     IF TokenInfoOf[address].name = ""
                                     THEN Placeholder
                                     ELSE TokenInfoOf[address])]_app

\* One metadata read of a run has failed and its asset holds the placeholder
\* while the read of the other asset is still pending.
C18_Witness ==
    \E t \in BagToSet(tasks) :
        /\ t.pc = "metadata"
        /\ DOMAIN t.balances = Tokens
        /\ t.warned = {"M"}
        /\ t.pending = {"N"}
        /\ t.metadata["M"] = Placeholder

\* C19: if every external call eventually returns or fails, every started
\* transfer flow eventually settles, either returned with a transaction id or
\* thrown with an error and never both, and from then on it issues no external
\* call and its outcome stays.
C19_Terminates ==
    /\ [](pc \in Awaiting => <>(pc \in Terminal))
    /\ [](/\ pc \in Awaiting => result.kind = "none"
          /\ pc = "returned" => result.kind = "value" /\ result.value \in TxIds
          /\ pc = "thrown" => result.kind = "error")
    /\ [][(pc \in Terminal /\ nflows' = nflows) =>
              UNCHANGED <<pc, result, calls, submitted>>]_vars

C19_Witness ==
    /\ pc \in Terminal
    /\ nflows = MaxFlows
    /\ flow = "spl"
    /\ Len(calls) >= 4

\* The instructions a call builds from its own arguments and from what the
\* node answered to it.
OwnCreation(r) ==
    IF r.receiverAccountInfo = "null"
    THEN <<[type |-> "createAssociatedTokenAccount", payer |-> r.args.from,
            associatedToken |-> [owner |-> r.args.to,
                                 mint |-> r.args.tokenAddress,
                                 programId |-> ProgramIdOf(r.tokenInfo.program)],
            owner |-> r.args.to, mint |-> r.args.tokenAddress,
            programId |-> ProgramIdOf(r.tokenInfo.program)]>>
    ELSE <<>>

OwnInstructions(r) ==
    IF r.flow = "sol"
    THEN <<[type |-> "transfer", fromPubkey |-> r.args.from,
            toPubkey |-> r.args.to, lamports |-> r.ixAmount[1]]>>
    ELSE LET mint == r.args.tokenAddress
             programId == ProgramIdOf(r.tokenInfo.program)
         IN  OwnCreation(r)
             \o <<[type |-> "transferChecked",
                    source |-> [owner |-> r.args.from, mint |-> mint,
                                programId |-> programId],
                    mint |-> mint,
                    destination |-> [owner |-> r.args.to, mint |-> mint,
                                     programId |-> programId],
                    owner |-> r.args.from, amount |-> r.ixAmount[1],
                    decimals |-> r.tokenInfo.decimals,
                    programId |-> programId]>>

Own(r) ==
    /\ r.ixAmount # <<>> =>
          (IsInteger(r.ixAmount[1]) =>
              IntegerPart(r.ixAmount[1]) =
                  ExactScaled(r.args.amount.n, r.args.amount.k,
                              IF r.flow = "sol" THEN LAMPORTS_PER_SOL_EXP
                              ELSE r.tokenInfo.decimals))
    /\ r.tx.encoding = "none" =>
          /\ r.submitted = <<>>
          /\ r.serializedHex = NoHex
          /\ r.instructions # <<>> =>
                 (r.flow = "spl" /\ r.instructions = OwnCreation(r))
    /\ r.tx.encoding # "none" =>
          /\ r.instructions = OwnInstructions(r)
          /\ r.tx.instructions = OwnInstructions(r)
          /\ r.tx.feePayer = r.args.from
          /\ r.tx.recentBlockhash = r.blockhash
          /\ r.serializedHex = <<ToHex(Message(r.tx))>>
          /\ r.tx.signatures[r.args.from] # <<>> =>
                /\ r.tx.signatures[r.args.from][1].msg = Message(r.tx)
                /\ r.tx.signatures[r.args.from][1].key = r.args.scalarKey
          /\ \A i \in 1..Len(r.submitted) : r.submitted[i] = r.tx

\* C20: when two transfer flows run interleaved, the instruction list, the
\* signed bytes and the submitted transaction of each are made of that flow's
\* own arguments and of the node's and the signer's answers to that flow; no
\* instruction, blockhash or signature of one flow is in the other's
\* transaction.
C20_FlowsAreIsolated ==
    /\ Own(Activation)
    /\ Own(parked)

C20_Witness ==
    /\ pc = "spl_send"
    /\ parked.pc = "spl_sign"
    /\ args.to # parked.args.to
    /\ blockhash # parked.blockhash
    /\ Len(instructions) # Len(parked.instructions)
    /\ Len(submitted) = 1

\* The runs a step starts: those of which more copies are in flight after it.
Started == {t \in BagToSet(tasks') : CopiesIn(t, tasks') > CopiesIn(t, tasks)}

\* C22: a click on a network button leaves walletAddress and scalarKey as
\* they are in every case, whether the network changes or not; it sets the
\* network, every read it starts is for the wallet shown on the network
\* chosen, the runs in flight stay, and of what is shown only the balance
\* and the token data change, to nothing.
C22_ToggleKeepsWallet ==
    [][(events' # events /\ walletAddress # "") =>
          /\ walletAddress' = walletAddress
          /\ scalarKey' = scalarKey
          /\ isMainnet' \in BOOLEAN
          /\ <<alerts, shown>>' = <<alerts, shown>>
          /\ \A t \in BagToSet(tasks) : CopiesIn(t, tasks') >= CopiesIn(t, tasks)
          /\ \A t \in Started :
                /\ t.useMainnet = isMainnet'
                /\ t.address = walletAddress
                /\ t.pc \in {"getSolBalance", "getSPLTokenBalances"}
          /\ IF isMainnet' = isMainnet
             THEN /\ Started = {}
                  /\ <<walletBalance, splTokenBalances, tokenMetadata>>'
                        = <<walletBalance, splTokenBalances, tokenMetadata>>
             ELSE /\ Started # {}
                  /\ walletBalance' = <<>>
                  /\ DOMAIN splTokenBalances' = {}
                  /\ DOMAIN tokenMetadata' = {}]_app

\* The wallet of k1 was imported and the network was switched to devnet;
\* the reads of the switch are in flight.
C22_Witness ==
    /\ walletAddress = "A"
    /\ scalarKey = "k1"
    /\ ~isMainnet
    /\ \E t \in BagToSet(tasks) : t.kind = "toggle" /\ ~t.useMainnet

\* C23: for a key whose base-58 decoding is not 32 bytes long getPublicKey
\* fails with "Invalid private key length" without calling the derivation,
\* and the import that awaited it alerts, leaves walletAddress and
\* walletBalance as they are (null, when nothing was imported), and starts no
\* call.
C23_BadKeyLength ==
    [][\A t \in BagToSet(tasks) :
          (/\ t.pc = "getPublicKey"
           /\ DecodedLength(t.key) # 32
           /\ CopiesIn(t, tasks') < CopiesIn(t, tasks))
              => /\ getPublicKey(t.key)
                        = [kind |-> "error",
                           value |-> "Invalid private key length",
                           derived |-> FALSE]
                 /\ walletAddress' = walletAddress
                 /\ walletBalance' = walletBalance
                 /\ alerts' = alerts + 1
                 /\ Started = {}
                 /\ BagCardinality(tasks') = BagCardinality(tasks) - 1]_app

\* Import was clicked on the key of 31 bytes and the handler has alerted:
\* no wallet is shown and nothing is in flight.
C23_Witness ==
    /\ scalarKey = BadKey
    /\ alerts = 1
    /\ events = 1
    /\ walletAddress = ""
    /\ walletBalance = <<>>
    /\ tasks = EmptyBag

\* C27: whenever walletAddress is set it is the public key of the scalarKey
\* in the UI state, whatever edits of the key field interleave with an
\* import in progress.
C27_AddressMatchesKey ==
    walletAddress # "" => (scalarKey \in Keys /\ PubOf[scalarKey] = walletAddress)

\* C28: once no balance read is outstanding, the balance shown is the one
\* read from the network selected (or the 0 a failed read leaves).
C28_BalanceOfSelectedNetwork ==
    (/\ \A t \in BagToSet(tasks) : t.pc \notin {"getPublicKey", "getSolBalance"}
     /\ walletBalance # <<>>)
        => walletBalance[1] \in {Sol(LamportsOf[isMainnet]), Sol(0)}

\* C29: once no token read is outstanding, the token balances shown are
\* those of the network selected (or none, when the read failed) and the
\* metadata shown has an entry for exactly the assets of the balances shown.
C29_TokenDataOfSelectedNetwork ==
    (walletAddress # "" /\ tasks = EmptyBag)
        => /\ DOMAIN tokenMetadata = DOMAIN splTokenBalances
           /\ splTokenBalances \in {TokenBalancesOf(walletAddress, isMainnet),
                                    Dict({}, 10)}

\* C21: every RPC call of a transfer flow goes to the endpoint of the
\* network value the handler passed when it started the flow, which is the
\* one selected at the click; the value stays with the flow until it is
\* over, whatever network is selected meanwhile.
C21_FlowKeepsItsNetwork ==
    /\ [](\A i \in 1..Len(calls) :
              calls[i].method \in RpcMethods
                  => calls[i].endpoint = getNetworkUrl(args.useMainnet))
    /\ [][/\ (pc = "idle" /\ pc' # "idle") => args'.useMainnet = isMainnet
          /\ (pc # "idle" /\ pc' # "idle") => args' = args]_<<vars, outer>>

\* A token transfer started on mainnet has made its four reads and submitted
\* its transaction after the network was switched to devnet.
C21_Witness ==
    /\ pc = "spl_send"
    /\ args.useMainnet
    /\ ~isMainnet
    /\ Len(calls) = 6
    /\ Len(submitted) = 1

\* A number greater than 0.
Positive(x) == ~x.nan /\ x.m # <<>>

\* C25: whatever a transfer flow builds, hands to the signer or submits is
\* for an amount greater than 0.
C25_AmountIsPositive ==
    (instructions # <<>> \/ serializedHex # NoHex \/ submitted # <<>>)
        => Positive(Number(args.amount))

\* C30: splTxhash and splError are never both set; the step in which a token
\* transfer attempt completes clears the id and sets the error when the
\* attempt failed, and clears the error and sets the new id when it
\* succeeded.
C30_HashOrError ==
    /\ [](splTxhash = <<>> \/ splError = <<>>)
    /\ [][(flow = "spl" /\ pc \in Terminal /\ pc' = "idle") =>
              IF pc = "thrown"
              THEN splTxhash' = <<>> /\ splError' = <<result.value>>
              ELSE splTxhash' = <<result.value>> /\ splError' = <<>>]_<<vars, outer>>

\* The second token transfer of the session has failed at submission, after
\* a native transfer or a token transfer was made.
C30_Witness ==
    /\ nflows = MaxFlows
    /\ pc = "idle"
    /\ splError = <<"SendTransactionError">>
    /\ splTxhash = <<>>

\* The account is one of an asset: the node parsed it as an account of one
\* of the two token programs.
IsAsset(accountInfo) ==
    /\ accountInfo.value = "parsed"
    /\ accountInfo.program \in {"spl-token", "spl-token-2022"}

\* C24: getSPLTokenInfo asks for the metadata only of an asset of the 2022
\* program; it returns empty name and symbol, without failing, for an asset
\* of the legacy program and for one without metadata; and it returns
\* nothing for an account that does not exist or is not an asset's.
C24_TokenInfo ==
    /\ Count(calls, "getTokenMetadata") > 0
          => tokenInfo.program = "spl-token-2022"
    /\ (pc \in Terminal /\ tokenInfo.value = "parsed"
            /\ tokenInfo.program = "spl-token")
          => result = Returned([name |-> "", symbol |-> ""])
    /\ (pc = "returned" /\ flow = "info") => IsAsset(tokenInfo)

\* C26: in the flow with fixed decimals a missing sender account ends the
\* call with null after the one read, with nothing built, signed or
\* submitted; and the call returns an id only in the step in which
\* sendRawTransaction resolves, the id being the one the node gave for the
\* one transaction submitted.
C26_FixedDecimals ==
    /\ [](senderAccountInfo = "null" =>
              /\ pc = "returned"
              /\ result = Returned("null")
              /\ Len(calls) = 1
              /\ instructions = <<>>
              /\ tx = NoTx
              /\ serializedHex = NoHex
              /\ submitted = <<>>)
    /\ []((pc = "returned" /\ result # Returned("null")) =>
              /\ result.value \in TxIds
              /\ Len(submitted) = 1
              /\ calls[Len(calls)].method = "sendRawTransaction")
    /\ [][(pc # "returned" /\ pc' = "returned" /\ result' # Returned("null"))
              => pc = "fixed_send"]_vars

\* The sender has no account for the asset and the call has returned null.
C26_Witness ==
    /\ flow = "fixed"
    /\ pc = "returned"
    /\ senderAccountInfo = "null"
    /\ result = Returned("null")

====
